---------------------------- MODULE Spec2Model ----------------------------
(***************************************************************************)
(* Chain-of-title resolver of backend/src/services/AssignmentChainAnalyzer *)
(* (first class definition of the file, lines 1-1185).                     *)
(*                                                                         *)
(* JavaScript strings are modelled as sequences of one-character strings,  *)
(* so that the regular expressions, toLowerCase, includes and the          *)
(* Levenshtein distance are computed character by character.  null and     *)
(* undefined are the value Null.  Calendar dates are day numbers; day       *)
(* Date1900 is 1900-01-01, the sentinel of orderAssignmentsChronologically.*)
(***************************************************************************)
EXTENDS Integers, Sequences, FiniteSets, TLC

\* null / undefined.  No JavaScript string equals it: its only element is
\* not a single character.
Null == <<"null">>

\* A truthy value that is not a string (an object or a number in the JSON
\* payload of the extraction service); calling a string method on it throws.
NonString == <<"[object Object]">>

\* JavaScript truthiness of an optional string: null, undefined and '' are falsy.
Truthy(v) == v # Null /\ v # <<>>

\* a || b on optional strings
Or(a, b) == IF Truthy(a) THEN a ELSE b

-----------------------------------------------------------------------------
(* Characters *)

UpperChars == {"A","B","C","D","E","F","G","H","I","J","K","L","M",
               "N","O","P","Q","R","S","T","U","V","W","X","Y","Z"}
LowerChars == {"a","b","c","d","e","f","g","h","i","j","k","l","m",
               "n","o","p","q","r","s","t","u","v","w","x","y","z"}
DigitChars == {"0","1","2","3","4","5","6","7","8","9"}
SpaceChars == {" ", "\t", "\n"}
WordChars  == UpperChars \cup LowerChars \cup DigitChars \cup {"_"}

LowerOf ==
  ("A" :> "a") @@ ("B" :> "b") @@ ("C" :> "c") @@ ("D" :> "d") @@ ("E" :> "e") @@
  ("F" :> "f") @@ ("G" :> "g") @@ ("H" :> "h") @@ ("I" :> "i") @@ ("J" :> "j") @@
  ("K" :> "k") @@ ("L" :> "l") @@ ("M" :> "m") @@ ("N" :> "n") @@ ("O" :> "o") @@
  ("P" :> "p") @@ ("Q" :> "q") @@ ("R" :> "r") @@ ("S" :> "s") @@ ("T" :> "t") @@
  ("U" :> "u") @@ ("V" :> "v") @@ ("W" :> "w") @@ ("X" :> "x") @@ ("Y" :> "y") @@
  ("Z" :> "z")

ToLowerChar(c) == IF c \in UpperChars THEN LowerOf[c] ELSE c

\* String.prototype.toLowerCase
toLowerCase(s) == SubSeq([k \in 1..Len(s) |-> ToLowerChar(s[k])], 1, Len(s))

\* String.prototype.substring(a, b) with 1-based inclusive bounds
Sub(s, a, b) == IF a > b THEN <<>> ELSE SubSeq(s, a, b)

\* does the literal text t occur in s at position i (case-sensitive)
TextAt(t, s, i) ==
  /\ i + Len(t) - 1 <= Len(s)
  /\ \A k \in 1..Len(t) : s[i + k - 1] = t[k]

\* String.prototype.includes
includes(s, t) == \E i \in 1..(Len(s) - Len(t) + 1) : TextAt(t, s, i)

\* String.prototype.trim
RECURSIVE TrimLeft(_)
TrimLeft(s) == IF s # <<>> /\ Head(s) \in SpaceChars THEN TrimLeft(Tail(s)) ELSE s
RECURSIVE TrimRight(_)
TrimRight(s) ==
  IF s # <<>> /\ s[Len(s)] \in SpaceChars THEN TrimRight(Sub(s, 1, Len(s) - 1)) ELSE s
trim(s) == TrimRight(TrimLeft(s))

-----------------------------------------------------------------------------
(* Regular expressions.  A pattern is a sequence of nodes; every pattern   *)
(* of the source carries the i flag, so literals are written in lower case *)
(* and compared with the lower-cased subject character.                    *)
(*   Lit(t)            the literal text t                                  *)
(*   Cls(set,neg,m,n)  a character class, repeated m..n times, greedy      *)
(*                     (n = -1 for * and +); Lazy(...) the lazy form       *)
(*   Opt(p)            (?:p)?                                              *)
(*   Alt(ps)           (?:p1|p2|...)                                       *)
(*   Eos, Bos, Wb      $, ^ and \b                                         *)
(*   CapS, CapE        the opening and closing parenthesis of the capture  *)
(*                     group                                               *)
(*   At                the position where the match starts                 *)

Lit(t) == [t |-> "lit", s |-> t]
Cls(set, neg, m, n) == [t |-> "cls", set |-> set, neg |-> neg, min |-> m, max |-> n, lazy |-> FALSE]
Lazy(set, neg, m, n) == [t |-> "cls", set |-> set, neg |-> neg, min |-> m, max |-> n, lazy |-> TRUE]
Opt(p) == [t |-> "opt", p |-> p]
Alt(ps) == [t |-> "alt", ps |-> ps]
Eos == [t |-> "eos"]
Bos == [t |-> "bos"]
Wb == [t |-> "wb"]
CapS == [t |-> "capS"]
CapE == [t |-> "capE"]
At == [t |-> "at"]

Ws0 == Cls(SpaceChars, FALSE, 0, -1)          \* \s*
Ws1 == Cls(SpaceChars, FALSE, 1, -1)          \* \s+
Any0 == Cls({"\n"}, TRUE, 0, -1)              \* .*
Any1 == Cls({"\n"}, TRUE, 1, -1)              \* .+
Any1Lazy == Lazy({"\n"}, TRUE, 1, -1)         \* .+?
Any0Lazy == Lazy({"\n"}, TRUE, 0, -1)         \* .*?
OptComma == Cls({","}, FALSE, 0, 1)            \* ,?
OptDot == Cls({"."}, FALSE, 0, 1)              \* \.?

InClass(n, c) == (ToLowerChar(c) \in n.set) # n.neg

\* the literal t at position i of s, ignoring case
LitAt(t, s, i) ==
  /\ i + Len(t) - 1 <= Len(s)
  /\ \A k \in 1..Len(t) : ToLowerChar(s[i + k - 1]) = t[k]

\* the least element of a non-empty set of integers
Min(S) == CHOOSE x \in S : \A y \in S : x <= y

\* Run(n, s, i, lim, step): the number of consecutive characters of class n
\* in s[i..lim], counted from position i (step is the stride tried next)
RECURSIVE Run(_, _, _, _, _)
Run(n, s, i, lim, step) ==
  IF i > lim THEN 0
  ELSE LET hi == IF i + step - 1 > lim THEN lim ELSE i + step - 1
       IN IF \A j \in i..hi : InClass(n, s[j])
          THEN (hi - i + 1) + Run(n, s, hi + 1, lim, step * 2)
          ELSE IF step = 1 THEN 0 ELSE Run(n, s, i, lim, 1)

\* the run a quantifier {min,max} can take at position i
RunAt(n, s, i) ==
  LET lim == IF n.max < 0 \/ i + n.max - 1 > Len(s) THEN Len(s) ELSE i + n.max - 1
  IN Run(n, s, i, lim, 1)

AtWordBoundary(s, i) ==
  LET before == i > 1 /\ s[i - 1] \in WordChars
      after == i <= Len(s) /\ s[i] \in WordChars
  IN before # after

NoMatch == [ok |-> FALSE, at |-> 0, end |-> 0, cs |-> 0, ce |-> 0]

\* a continuation of a match: the pattern p still to be matched at position i
Cand(p, i) == [p |-> p, i |-> i]

\* Step(n, s, i): the continuations a quantifier, an option or an alternation
\* offers at position i of s, in the order in which a backtracking matcher
\* tries them
Step(n, s, i) ==
  CASE n.t = "cls" ->
         LET r == RunAt(n, s, i)
         IN SubSeq([k \in 1..(r - n.min + 1) |->
                      Cand(<<>>, IF n.lazy THEN i + n.min + (k - 1) ELSE i + r - (k - 1))],
                   1, r - n.min + 1)
    [] n.t = "opt" -> << Cand(n.p, i), Cand(<<>>, i) >>
    [] n.t = "alt" -> SubSeq([k \in 1..Len(n.ps) |-> Cand(n.ps[k], i)], 1, Len(n.ps))

\* does a literal or an assertion hold at position i of s, and how many
\* characters does it take
Fits(n, s, i) ==
  CASE n.t = "lit" -> LitAt(n.s, s, i)
    [] n.t = "eos" -> i = Len(s) + 1
    [] n.t = "bos" -> i = 1
    [] n.t = "wb" -> AtWordBoundary(s, i)
    [] n.t \in {"capS", "capE", "at"} -> TRUE
Width(n) == IF n.t = "lit" THEN Len(n.s) ELSE 0

\* the first successful attempt of a sequence of attempts
IsOk(m) == m.ok
First(tries) == Head(SelectSeq(tries, IsOk) \o << NoMatch >>)

\* the start of the match and the bounds of the capture group are noted
\* where the pattern marks them
Note(n, i) ==
  [at |-> IF n.t = "at" THEN i ELSE 0,
   cs |-> IF n.t = "capS" THEN i ELSE 0,
   ce |-> IF n.t = "capE" THEN i ELSE 0]
Noted(m, note) ==
  IF m.ok THEN [ok |-> TRUE, at |-> m.at + note.at, end |-> m.end,
                cs |-> m.cs + note.cs, ce |-> m.ce + note.ce]
  ELSE NoMatch
Mark(n, i, m) == Noted(m, Note(n, i))

\* Match(p, s, i): the match of pattern p starting at position i of s that a
\* backtracking matcher finds first: end is the position just after it,
\* cs..ce-1 the text of the capture group.
RECURSIVE Match(_, _, _)
Tries(cands, rest, s) ==
  SubSeq([k \in 1..Len(cands) |-> Match(cands[k].p \o rest, s, cands[k].i)], 1, Len(cands))
Match(p, s, i) ==
  IF Len(p) = 0 THEN [ok |-> TRUE, at |-> 0, end |-> i, cs |-> 0, ce |-> 0]
  ELSE IF Head(p).t \in {"cls", "opt", "alt"}
       THEN First(Tries(Step(Head(p), s, i), Tail(p), s))
       ELSE IF Fits(Head(p), s, i)
            THEN Mark(Head(p), i, Match(Tail(p), s, i + Width(Head(p))))
            ELSE NoMatch

\* the leftmost match of p in s at or after position from
\* (at is its start, 0 when there is none)
Search(p, s, from) ==
  First(SubSeq([k \in 1..(Len(s) + 2 - from) |-> Match(<< At >> \o p, s, from + k - 1)],
               1, Len(s) + 2 - from))

\* String.prototype.replace(/p/i, r): the first match only
Splice(s, m, r) ==
  IF m.at = 0 THEN s
  ELSE Sub(s, 1, m.at - 1) \o r \o Sub(s, m.end, Len(s))
replace(s, p, r) == Splice(s, Search(p, s, 1), r)

\* String.prototype.replace(/p/gi, r): every match, left to right.  No
\* pattern replaced globally in the source matches the empty string.
RECURSIVE ReplaceFrom(_, _, _, _)
SpliceFrom(s, p, r, from, m) ==
  IF m.at = 0 \/ m.end = m.at THEN Sub(s, from, Len(s))
  ELSE Sub(s, from, m.at - 1) \o r \o ReplaceFrom(s, p, r, m.end)
ReplaceFrom(s, p, r, from) == SpliceFrom(s, p, r, from, Search(p, s, from))
replaceAll(s, p, r) == ReplaceFrom(s, p, r, 1)

\* String.prototype.match(/p/i)[1] for a pattern with one capture group:
\* the captured text of the leftmost match, Null when there is no match
Captured(s, m) == IF m.at = 0 THEN Null ELSE Sub(s, m.cs, m.ce - 1)
capture(s, p) == Captured(s, Search(p, s, 1))

\* the value of the last of a sequence of steps, each computed before the next
Last(steps) == steps[Len(steps)]

\* a chain of .replace calls: each edit is a pattern, its replacement and the
\* g flag.  No edit of the source changes the empty string.
Edit(p, r, all) == [p |-> p, r |-> r, all |-> all]
ApplyEdit(s, e) == IF e.all THEN replaceAll(s, e.p, e.r) ELSE replace(s, e.p, e.r)
RECURSIVE ApplyFrom(_, _, _)
ApplyFrom(s, edits, k) ==
  IF s = <<>> \/ k > Len(edits) THEN s
  ELSE ApplyFrom(ApplyEdit(s, edits[k]), edits, k + 1)

-----------------------------------------------------------------------------
(* Role Resolver: MERS nominee detection (lines 1042-1089) *)

Digit1 == Cls(DigitChars, FALSE, 1, 1)         \* \d
AnyLetter2 == Cls(LowerChars, FALSE, 2, 2)     \* [A-Z]{2} under the i flag

\* (.+?)(?:,\s*(?:its\s+successors|and\s+assigns|located|at\s+\d)|\s*$)
MersPrincipalEnd ==
  << CapS, Any1Lazy, CapE,
     Alt(<< << Lit(<<",">>), Ws0,
               Alt(<< << Lit(<<"i","t","s">>), Ws1, Lit(<<"s","u","c","c","e","s","s","o","r","s">>) >>,
                      << Lit(<<"a","n","d">>), Ws1, Lit(<<"a","s","s","i","g","n","s">>) >>,
                      << Lit(<<"l","o","c","a","t","e","d">>) >>,
                      << Lit(<<"a","t">>), Ws1, Digit1 >> >>) >>,
            << Ws0, Eos >> >>) >>

\* /mers.*?(?:as\s+|solely\s+as\s+)?nominee\s+for\s+(.+?)(?:...)/i
MersPattern1 ==
  << Lit(<<"m","e","r","s">>), Any0Lazy,
     Opt(<< Alt(<< << Lit(<<"a","s">>), Ws1 >>,
                   << Lit(<<"s","o","l","e","l","y">>), Ws1, Lit(<<"a","s">>), Ws1 >> >>) >>),
     Lit(<<"n","o","m","i","n","e","e">>), Ws1, Lit(<<"f","o","r">>), Ws1 >>
\* /mers,?\s*solely\s+as\s+nominee\s+for\s+(.+?)(?:...)/i
MersPattern2 ==
  << Lit(<<"m","e","r","s">>), OptComma, Ws0, Lit(<<"s","o","l","e","l","y">>), Ws1, Lit(<<"a","s">>), Ws1,
     Lit(<<"n","o","m","i","n","e","e">>), Ws1, Lit(<<"f","o","r">>), Ws1 >>
\* /mortgage\s+electronic\s+registration\s+systems.*?as\s+nominee\s+for\s+(.+?)(?:...)/i
MersPattern3 ==
  << Lit(<<"m","o","r","t","g","a","g","e">>), Ws1, Lit(<<"e","l","e","c","t","r","o","n","i","c">>), Ws1, Lit(<<"r","e","g","i","s","t","r","a","t","i","o","n">>), Ws1,
     Lit(<<"s","y","s","t","e","m","s">>), Any0Lazy, Lit(<<"a","s">>), Ws1, Lit(<<"n","o","m","i","n","e","e">>), Ws1,
     Lit(<<"f","o","r">>), Ws1 >>

\* principal.replace(/,?\s*its\s+successors.*$/i, '').replace(/,?\s*and\s+assigns.*$/i, '')
CleanMersPrincipal(principal) ==
  ApplyFrom(principal,
            << Edit(<< OptComma, Ws0, Lit(<<"i","t","s">>), Ws1, Lit(<<"s","u","c","c","e","s","s","o","r","s">>), Any0, Eos >>, <<>>, FALSE),
               Edit(<< OptComma, Ws0, Lit(<<"a","n","d">>), Ws1, Lit(<<"a","s","s","i","g","n","s">>), Any0, Eos >>, <<>>, FALSE) >>,
            1)

\* the first pattern that matches with a non-empty capture decides
IsMatch(m) == m # Null
FirstMatch(matches) == Head(SelectSeq(matches, IsMatch) \o << Null >>)
CleanedPrincipal(m) == IF m = Null THEN Null ELSE CleanMersPrincipal(trim(m))
extractMERSPrincipal(name) ==
  IF ~Truthy(name) THEN Null
  ELSE CleanedPrincipal(FirstMatch(<< capture(name, MersPattern1 \o MersPrincipalEnd),
                                      capture(name, MersPattern2 \o MersPrincipalEnd),
                                      capture(name, MersPattern3 \o MersPrincipalEnd) >>))

\* { isMERS, originalName, effectiveName, ... }; effectiveName is Null when
\* no "nominee for" clause is found
analyzeMERSRole(partyName) ==
  IF ~Truthy(partyName) THEN [isMERS |-> FALSE, effectiveName |-> Null]
  ELSE LET lowerName == toLowerCase(partyName)
           isMERSEntity == includes(lowerName, <<"m","e","r","s">>)
                             \/ includes(lowerName, <<"m","o","r","t","g","a","g","e"," ","e","l","e","c","t","r","o","n","i","c"," ","r","e","g","i","s","t","r","a","t","i","o","n">>)
       IN IF isMERSEntity
          THEN [isMERS |-> TRUE, effectiveName |-> extractMERSPrincipal(partyName)]
          ELSE [isMERS |-> FALSE, effectiveName |-> Null]

-----------------------------------------------------------------------------
(* Name Normalizer (lines 824-875) *)

\* /,?\s*<clause>.*$/i with the clause given as a pattern, replaced by ''
Clause(p) == Edit(<< OptComma, Ws0 >> \o p \o << Any0, Eos >>, <<>>, FALSE)

OptIts == Opt(<< Lit(<<"i","t","s">>), Ws1 >>)          \* (?:its\s+)?
OptTheir == Opt(<< Lit(<<"t","h","e","i","r">>), Ws1 >>)      \* (?:their\s+)?
OptS == Cls({"s"}, FALSE, 0, 1)                \* s?

StreetWords ==
  Alt(<< << Lit(<<"s","t","r","e","e","t">>) >>, << Lit(<<"s","t">>) >>, << Lit(<<"a","v","e","n","u","e">>) >>, << Lit(<<"a","v","e">>) >>,
         << Lit(<<"r","o","a","d">>) >>, << Lit(<<"r","d">>) >>, << Lit(<<"d","r","i","v","e">>) >>, << Lit(<<"d","r">>) >>,
         << Lit(<<"l","a","n","e">>) >>, << Lit(<<"l","n">>) >>, << Lit(<<"w","a","y">>) >>, << Lit(<<"b","l","v","d">>) >>,
         << Lit(<<"b","o","u","l","e","v","a","r","d">>) >> >>)

\* lines 835-839: remove address information
AddressEdits ==
  << Edit(<< OptComma, Ws0, Alt(<< << Lit(<<"a","t">>) >>, << Lit(<<"l","o","c","a","t","e","d"," ","a","t">>) >> >>),
             Ws1, Any1, Eos >>, <<>>, FALSE),
     Edit(<< Lit(<<",">>), Ws0, Cls(DigitChars, FALSE, 1, 5), Ws1,
             Cls({","}, TRUE, 1, -1), StreetWords, Any0, Eos >>, <<>>, FALSE),
     Edit(<< Lit(<<",">>), Ws0, Cls(DigitChars, FALSE, 5, 5),
             Opt(<< Lit(<<"-">>), Cls(DigitChars, FALSE, 4, 4) >>),
             Opt(<< Ws0, Lit(<<",">>), Any0 >>), Eos >>, <<>>, FALSE),
     Edit(<< Lit(<<",">>), Ws0, Alt(<< << Lit(<<"a","t","t","n">>) >>, << Lit(<<"a","t","t","e","n","t","i","o","n">>) >> >>),
             Ws0, Cls({"#", ":"}, FALSE, 0, 1), Ws0,
             Cls(DigitChars, FALSE, 1, -1), Any0, Eos >>, <<>>, FALSE),
     Edit(<< Lit(<<",">>), Ws0,
             Alt(<< << AnyLetter2, Ws1, Cls(DigitChars, FALSE, 5, 5) >>,
                    << AnyLetter2 >> >>),
             Ws0, Eos >>, <<>>, FALSE) >>

\* lines 842-857: remove boilerplate legal suffixes, in the source's order
BoilerplateEdits ==
  << Clause(<< OptIts, Lit(<<"s","u","c","c","e","s","s","o","r","s">>), Ws1, Lit(<<"a","n","d","/","o","r">>), Ws1, Lit(<<"a","s","s","i","g","n">>), OptS >>),
     Clause(<< OptIts, Lit(<<"s","u","c","c","e","s","s","o","r","s">>), Ws1, Lit(<<"a","n","d">>), Ws1, Lit(<<"a","s","s","i","g","n">>), OptS >>),
     Clause(<< Lit(<<"a","n","d","/","o","r">>), Ws1, Lit(<<"a","s","s","i","g","n">>), OptS >>),
     Clause(<< Lit(<<"a","n","d">>), Ws1, Lit(<<"a","s","s","i","g","n">>), OptS >>),
     Clause(<< OptIts, Lit(<<"s","u","c","c","e","s","s","o","r","s">>) >>),
     Clause(<< OptTheir, Lit(<<"s","u","c","c","e","s","s","o","r","s">>) >>),
     Clause(<< Lit(<<"s","u","c","c","e","s","s","o","r","s">>), Ws1, Lit(<<"i","n">>), Ws1, Lit(<<"i","n","t","e","r","e","s","t">>) >>),
     Clause(<< OptTheir, Lit(<<"l","e","g","a","l">>), Ws1, Lit(<<"r","e","p","r","e","s","e","n","t","a","t","i","v","e","s">>) >>),
     Clause(<< Lit(<<"b","y">>), Ws1, Lit(<<"a","n","d">>), Ws1, Lit(<<"t","h","r","o","u","g","h">>), Ws1,
               Lit(<<"i","t","s">>), Ws1, Lit(<<"a","t","t","o","r","n","e","y","-","i","n","-","f","a","c","t">>) >>),
     Clause(<< Lit(<<"a","c","t","i","n","g">>), Ws1, Lit(<<"t","h","r","o","u","g","h">>) >>),
     Clause(<< Lit(<<"a","s">>), Ws1, Lit(<<"a","t","t","o","r","n","e","y","-","i","n","-","f","a","c","t">>), Ws1, Lit(<<"f","o","r">>) >>),
     Clause(<< Lit(<<"d","o","i","n","g">>), Ws1, Lit(<<"b","u","s","i","n","e","s","s">>), Ws1, Lit(<<"a","s">>) >>),
     Clause(<< Lit(<<"d","/","b","/","a">>) >>),
     Clause(<< Lit(<<"s","o","l","e","l","y">>), Ws1, Lit(<<"a","s">>), Ws1, Lit(<<"n","o","m","i","n","e","e">>) >>),
     Clause(<< Lit(<<"a","s">>), Ws1, Lit(<<"t","r","u","s","t","e","e">>), Ws1, Lit(<<"f","o","r">>) >>),
     Clause(<< Lit(<<"a","s">>), Ws1, Lit(<<"n","o","m","i","n","e","e">>), Ws1, Lit(<<"f","o","r">>) >>) >>

\* lines 860-866: normalize corporate suffixes (every occurrence)
SuffixEdits ==
  << Edit(<< Wb, Lit(<<"n">>), OptDot, Lit(<<"a">>), OptDot >>, <<"n","a">>, TRUE),
     Edit(<< Wb, Lit(<<"c","o","r","p">>), OptDot >>, <<"c","o","r","p","o","r","a","t","i","o","n">>, TRUE),
     Edit(<< Wb, Lit(<<"l","l","c">>), OptDot >>, <<"l","l","c">>, TRUE),
     Edit(<< Wb, Lit(<<"i","n","c">>), OptDot >>, <<"i","n","c","o","r","p","o","r","a","t","e","d">>, TRUE),
     Edit(<< Wb, Lit(<<"l","t","d">>), OptDot >>, <<"l","i","m","i","t","e","d">>, TRUE),
     Edit(<< Wb, Lit(<<"l">>), OptDot, Lit(<<"p">>), OptDot >>, <<"l","p">>, TRUE),
     Edit(<< Wb, Lit(<<"c","o">>), OptDot, Eos >>, <<"c","o","m","p","a","n","y">>, TRUE) >>

\* lines 869-871: clean up whitespace and punctuation
CleanUpEdits ==
  << Edit(<< Ws1 >>, <<" ">>, TRUE),
     Edit(<< Cls({".", ",", ";"}, FALSE, 1, -1), Eos >>, <<>>, FALSE),
     Edit(<< Alt(<< << Bos, Cls({",", " ", "\t", "\n"}, FALSE, 1, -1) >>,
                    << Cls({",", " ", "\t", "\n"}, FALSE, 1, -1), Eos >> >>) >>, <<>>, TRUE) >>

StripAddress(s) == ApplyFrom(s, AddressEdits, 1)
StripBoilerplate(s) == ApplyFrom(s, BoilerplateEdits, 1)
NormalizeSuffixes(s) == ApplyFrom(s, SuffixEdits, 1)
CleanUp(s) == trim(ApplyFrom(s, CleanUpEdits, 1))

\* lines 828-830: the nominee's principal stands for a MERS party
EffectiveName(mersInfo, name) ==
  IF mersInfo.isMERS /\ Truthy(mersInfo.effectiveName) THEN mersInfo.effectiveName ELSE name

getNormalizedName(name) ==
  IF ~Truthy(name) THEN <<>>
  ELSE CleanUp(NormalizeSuffixes(StripBoilerplate(StripAddress(
         toLowerCase(EffectiveName(analyzeMERSRole(name), name))))))
-----------------------------------------------------------------------------
(* Role Resolver: power of attorney (lines 894-914, 1091-1120) *)

\* lines 1095-1098 (and 897-900): the attorney-in-fact markers
HasPOAMarker(partyName) ==
  LET lower == toLowerCase(partyName)
  IN \/ includes(lower, <<"a","t","t","o","r","n","e","y","-","i","n","-","f","a","c","t">>)
     \/ includes(lower, <<"a","t","t","o","r","n","e","y"," ","i","n"," ","f","a","c","t">>)
     \/ includes(lower, <<" ","a","i","f"," ">>)
     \/ includes(lower, <<" ","p","o","a"," ">>)

isPowerOfAttorney(partyName) == Truthy(partyName) /\ HasPOAMarker(partyName)

NoPOA == [isPOA |-> FALSE, effectiveName |-> Null, agent |-> Null, principal |-> Null]

\* analyzePOARole with the clause of the text read before the declared principal
analyzePOARoleClauseFirst(partyName, principalName) ==
  IF ~Truthy(partyName) THEN NoPOA
  ELSE IF ~HasPOAMarker(partyName) THEN NoPOA
  ELSE LET principalMatch ==
             capture(partyName, << Lit(<<"a","t","t","o","r","n","e","y","-","i","n","-","f","a","c","t"," ","f","o","r"," ">>), CapS, Any1Lazy, CapE,
                                   Alt(<< << Lit(<<",">>) >>, << Eos >> >>) >>)
           extractedPrincipal ==
             IF principalMatch # Null THEN trim(principalMatch) ELSE principalName
       IN [isPOA |-> TRUE, effectiveName |-> extractedPrincipal, agent |-> Null,
           principal |-> extractedPrincipal]

\* { isPOA, originalName, effectiveName, agent, principal }
analyzePOARole(partyName, principalName) ==
  IF ~Truthy(partyName) THEN NoPOA
  ELSE IF ~HasPOAMarker(partyName) THEN NoPOA
  ELSE LET \* /attorney-in-fact for (.+?)(?:,|$)/i
           principalMatch ==
             capture(partyName, << Lit(<<"a","t","t","o","r","n","e","y","-","i","n","-","f","a","c","t"," ","f","o","r"," ">>), CapS, Any1Lazy, CapE,
                                   Alt(<< << Lit(<<",">>) >>, << Eos >> >>) >>)
           extractedPrincipal ==
             IF Truthy(principalName) THEN principalName
             ELSE IF principalMatch # Null THEN trim(principalMatch)
             ELSE principalName
           \* partyName.split(/attorney-in-fact|aif|poa/i)[0].trim()
           cut == Search(<< Alt(<< << Lit(<<"a","t","t","o","r","n","e","y","-","i","n","-","f","a","c","t">>) >>, << Lit(<<"a","i","f">>) >>,
                                   << Lit(<<"p","o","a">>) >> >>) >>, partyName, 1)
           agent == IF cut.at = 0 THEN trim(partyName) ELSE trim(Sub(partyName, 1, cut.at - 1))
       IN [isPOA |-> TRUE, effectiveName |-> extractedPrincipal, agent |-> agent,
           principal |-> extractedPrincipal]

\* lines 903-914: /mers.*as nominee for (.+?)(?:,|$)/ on the lower-cased name
extractMERSNominee(partyName) ==
  IF ~Truthy(partyName) THEN Null
  ELSE LET mersMatch ==
             capture(toLowerCase(partyName),
                     << Lit(<<"m","e","r","s">>), Any0, Lit(<<"a","s"," ","n","o","m","i","n","e","e"," ","f","o","r"," ">>), CapS, Any1Lazy, CapE,
                        Alt(<< << Lit(<<",">>) >>, << Eos >> >>) >>)
       IN IF mersMatch # Null THEN trim(mersMatch) ELSE Null

-----------------------------------------------------------------------------
(* Similarity Matcher (lines 930-1040).  A similarity is the exact         *)
(* fraction num/den; for strings of up to 120 characters the comparisons   *)
(* with 0.7 and 0.85 give the same answer as in double arithmetic.         *)

MatchThresholdPct == 85
BoostFloorPct == 70
BoostPct == 10
MinContainedLen == 5
MinCommonTerms == 2

AtLeastPct(sim, pct) == 100 * sim.num >= pct * sim.den

Min2(a, b) == IF a <= b THEN a ELSE b

\* one row of the matrix of levenshteinDistance: row[j + 1] = matrix[i][j] for
\* the i-th character c of str2, from the row above (lines 1025-1036)
RECURSIVE NextRow(_, _, _, _, _)
NextRow(above, row, c, str1, j) ==
  IF j > Len(str1) THEN row
  ELSE LET v == IF c = str1[j] THEN above[j]
                ELSE Min2(above[j] + 1, Min2(row[j] + 1, above[j + 1] + 1))
       IN NextRow(above, Append(row, v), c, str1, j + 1)

RECURSIVE Rows(_, _, _, _)
Rows(above, str1, str2, i) ==
  IF i > Len(str2) THEN above[Len(str1) + 1]
  ELSE LET row == NextRow(above, << i >>, str2[i], str1, 1)
       IN Last(<< row, Rows(row, str1, str2, i + 1) >>)

levenshteinDistance(str1, str2) ==
  Rows([j \in 1..(Len(str1) + 1) |-> j - 1], str1, str2, 1)

\* lines 954-970
getKnownSuccessors ==
  { << <<"c","o","u","n","t","r","y","w","i","d","e"," ","h","o","m","e"," ","l","o","a","n","s",","," ","i","n","c","o","r","p","o","r","a","t","e","d">>, <<"b","a","n","k"," ","o","f"," ","a","m","e","r","i","c","a",","," ","n","a">> >>,
    << <<"c","o","u","n","t","r","y","w","i","d","e"," ","h","o","m","e"," ","l","o","a","n","s",","," ","i","n","c">>, <<"b","a","n","k"," ","o","f"," ","a","m","e","r","i","c","a",","," ","n","a">> >>,
    << <<"c","o","u","n","t","r","y","w","i","d","e"," ","b","a","n","k",","," ","n","a">>, <<"b","a","n","k"," ","o","f"," ","a","m","e","r","i","c","a",","," ","n","a">> >>,
    << <<"c","o","u","n","t","r","y","w","i","d","e"," ","b","a","n","k",","," ","f","s","b">>, <<"b","a","n","k"," ","o","f"," ","a","m","e","r","i","c","a",","," ","n","a">> >>,
    << <<"b","a","c"," ","h","o","m","e"," ","l","o","a","n","s"," ","s","e","r","v","i","c","i","n","g",","," ","l","p">>, <<"b","a","n","k"," ","o","f"," ","a","m","e","r","i","c","a",","," ","n","a">> >>,
    << <<"r","e","s","i","d","e","n","t","i","a","l"," ","f","u","n","d","i","n","g"," ","c","o","m","p","a","n","y",","," ","l","l","c">>, <<"a","l","l","y"," ","b","a","n","k">> >>,
    << <<"g","m","a","c"," ","m","o","r","t","g","a","g","e",","," ","l","l","c">>, <<"a","l","l","y"," ","b","a","n","k">> >>,
    << <<"c","h","a","s","e"," ","h","o","m","e"," ","f","i","n","a","n","c","e"," ","l","l","c">>, <<"j","p","m","o","r","g","a","n"," ","c","h","a","s","e"," ","b","a","n","k",","," ","n","a">> >>,
    << <<"w","a","s","h","i","n","g","t","o","n"," ","m","u","t","u","a","l"," ","b","a","n","k">>, <<"j","p","m","o","r","g","a","n"," ","c","h","a","s","e"," ","b","a","n","k",","," ","n","a">> >>,
    << <<"w","a","m","u">>, <<"j","p","m","o","r","g","a","n"," ","c","h","a","s","e"," ","b","a","n","k",","," ","n","a">> >>,
    << <<"w","e","l","l","s"," ","f","a","r","g","o"," ","h","o","m","e"," ","m","o","r","t","g","a","g","e">>, <<"w","e","l","l","s"," ","f","a","r","g","o"," ","b","a","n","k",","," ","n","a">> >>,
    << <<"w","o","r","l","d"," ","s","a","v","i","n","g","s"," ","b","a","n","k",","," ","f","s","b">>, <<"w","e","l","l","s"," ","f","a","r","g","o"," ","b","a","n","k",","," ","n","a">> >>,
    << <<"w","a","c","h","o","v","i","a"," ","m","o","r","t","g","a","g","e",","," ","f","s","b">>, <<"w","e","l","l","s"," ","f","a","r","g","o"," ","b","a","n","k",","," ","n","a">> >> }

\* successors[a] === b
SuccessorIs(a, b) == << a, b >> \in getKnownSuccessors

bankTerms ==
  { <<"b","a","n","k">>, <<"m","o","r","t","g","a","g","e">>, <<"f","i","n","a","n","c","i","a","l">>, <<"l","e","n","d","i","n","g">>, <<"l","o","a","n">>, <<"t","r","u","s","t">>, <<"n","a","t","i","o","n","a","l">>, <<"h","o","m","e">> }

calculateSimilarity(str1, str2) ==
  IF ~Truthy(str1) \/ ~Truthy(str2) THEN [num |-> 0, den |-> 1]
  ELSE LET norm1 == trim(toLowerCase(str1))
           norm2 == trim(toLowerCase(str2))
       IN IF SuccessorIs(norm1, norm2) \/ SuccessorIs(norm2, norm1) THEN [num |-> 1, den |-> 1]
          ELSE LET longer == IF Len(str1) > Len(str2) THEN str1 ELSE str2
                   shorter == IF Len(str1) > Len(str2) THEN str2 ELSE str1
                   editDistance == levenshteinDistance(toLowerCase(longer), toLowerCase(shorter))
                   similarity == [num |-> Len(longer) - editDistance, den |-> Len(longer)]
                   commonTerms ==
                     Cardinality({term \in bankTerms : includes(norm1, term) /\ includes(norm2, term)})
               IN IF AtLeastPct(similarity, BoostFloorPct) /\ commonTerms >= MinCommonTerms
                  THEN \* Math.min(1.0, similarity + 0.1)
                       [num |-> Min2(100 * similarity.den,
                                     100 * similarity.num + BoostPct * similarity.den),
                        den |-> 100 * similarity.den]
                  ELSE similarity

\* a match that looks for the second name in the first only
NormalizedMatchOneWay(norm1, norm2) ==
  \/ norm1 = norm2
  \/ AtLeastPct(calculateSimilarity(norm1, norm2), MatchThresholdPct)
  \/ (includes(norm1, norm2) /\ Len(norm2) >= MinContainedLen)

\* lines 936-950, on the two normalized names
NormalizedMatch(norm1, norm2) ==
  LET shorter == IF Len(norm1) < Len(norm2) THEN norm1 ELSE norm2
  IN \/ norm1 = norm2
     \/ AtLeastPct(calculateSimilarity(norm1, norm2), MatchThresholdPct)
     \/ ((includes(norm1, norm2) \/ includes(norm2, norm1))
           /\ Len(shorter) >= MinContainedLen)

advancedNameMatch(name1, name2) ==
  IF ~Truthy(name1) \/ ~Truthy(name2) THEN FALSE
  ELSE NormalizedMatch(getNormalizedName(name1), getNormalizedName(name2))

\* lines 916-928
isMERSNominee(assignorName, originalLender) ==
  IF ~Truthy(assignorName) \/ ~Truthy(originalLender) THEN FALSE
  ELSE LET nominee == extractMERSNominee(assignorName)
       IN IF Truthy(nominee)
          THEN advancedNameMatch(getNormalizedName(nominee), getNormalizedName(originalLender))
          ELSE FALSE

\* lines 877-892
getEffectiveParty(partyName, principalName) ==
  IF ~Truthy(partyName) THEN Null
  ELSE IF Truthy(principalName) /\ isPowerOfAttorney(partyName) THEN principalName
  ELSE LET mersNominee == extractMERSNominee(partyName)
       IN IF Truthy(mersNominee) THEN mersNominee ELSE partyName

-----------------------------------------------------------------------------
(* Raw assignment records.  A date is <<>> when absent and <<d>> when       *)
(* present, d being its day number; day Date1900 is 1900-01-01, the         *)
(* sentinel of orderAssignmentsChronologically.  The legacy fields          *)
(* assignor, assignee, assignmentDate and recordingDate always carry the    *)
(* value of assignor_name, assignee_name, execution_date and recording_date *)
(* (lines 566-570), so every `x || legacy_x` of the source reads x.         *)

Date1900 == 1

NoDate == <<>>
On(d) == << d >>

Assignment(assignor, assignee, exec, rec, instrument, agent, principal) ==
  [assignor_name |-> assignor, assignee_name |-> assignee,
   execution_date |-> exec, recording_date |-> rec,
   instrument_number |-> instrument,
   power_of_attorney_indicator |-> Truthy(agent),
   principal_name |-> Null,
   poa_agent |-> agent, poa_principal |-> principal,
   chunkIndex |-> 0]

-----------------------------------------------------------------------------
(* Chronological Orderer (lines 609-633) *)

\* a comparator that stops at the execution date
compareExecutionOnly(a, b) ==
  (IF a.execution_date # NoDate THEN a.execution_date[1] ELSE Date1900)
    - (IF b.execution_date # NoDate THEN b.execution_date[1] ELSE Date1900)

\* the comparator handed to Array.prototype.sort
compare(a, b) ==
  LET parsedDateA == IF a.execution_date # NoDate THEN a.execution_date[1] ELSE Date1900
      parsedDateB == IF b.execution_date # NoDate THEN b.execution_date[1] ELSE Date1900
  IN IF parsedDateA # parsedDateB THEN parsedDateA - parsedDateB
     ELSE LET parsedRecordA == IF a.recording_date # NoDate THEN a.recording_date[1]
                               ELSE parsedDateA
              parsedRecordB == IF b.recording_date # NoDate THEN b.recording_date[1]
                               ELSE parsedDateB
          IN parsedRecordA - parsedRecordB

\* a sort that is not stable: an element is placed before the elements
\* already placed that it ties with
RECURSIVE InsertBeforeTies(_, _)
InsertBeforeTies(sorted, x) ==
  IF sorted = <<>> THEN << x >>
  ELSE IF compare(x, sorted[Len(sorted)]) <= 0
       THEN Append(InsertBeforeTies(SubSeq(sorted, 1, Len(sorted) - 1), x),
                   sorted[Len(sorted)])
       ELSE Append(sorted, x)

\* Array.prototype.sort is stable: an element is placed after every element
\* already placed that it does not precede
RECURSIVE Insert(_, _)
Insert(sorted, x) ==
  IF sorted = <<>> THEN << x >>
  ELSE IF compare(x, sorted[Len(sorted)]) < 0
       THEN Append(Insert(SubSeq(sorted, 1, Len(sorted) - 1), x), sorted[Len(sorted)])
       ELSE Append(sorted, x)

RECURSIVE SortFrom(_, _, _)
SortFrom(sorted, list, k) ==
  IF k > Len(list) THEN sorted ELSE SortFrom(Insert(sorted, list[k]), list, k + 1)

orderAssignmentsChronologically(list) == SortFrom(<<>>, list, 1)

-----------------------------------------------------------------------------
(* Chain Validator: the per-link enhancement (lines 656-732) *)

\* confidence in tenths: 1.0 less 0.2, 0.1, 0.1, 0.3, 0.3, floored at 0.1
FullConfidence == 10
NoExecutionPenalty == 2
NoRecordingPenalty == 1
NoInstrumentPenalty == 1
NoPartyPenalty == 3
ConfidenceFloor == 1
LowConfidenceBelow == 7

Max2(a, b) == IF a >= b THEN a ELSE b

\* a score without the Math.max of line 1134
calculateAssignmentConfidenceUnfloored(assignment) ==
  FullConfidence
    - (IF assignment.execution_date = NoDate THEN NoExecutionPenalty ELSE 0)
    - (IF assignment.recording_date = NoDate THEN NoRecordingPenalty ELSE 0)
    - (IF ~Truthy(assignment.instrument_number) THEN NoInstrumentPenalty ELSE 0)
    - (IF ~Truthy(assignment.assignor_name) THEN NoPartyPenalty ELSE 0)
    - (IF ~Truthy(assignment.assignee_name) THEN NoPartyPenalty ELSE 0)

calculateAssignmentConfidence(assignment) ==
  Max2(ConfidenceFloor,
       FullConfidence
         - (IF assignment.execution_date = NoDate THEN NoExecutionPenalty ELSE 0)
         - (IF assignment.recording_date = NoDate THEN NoRecordingPenalty ELSE 0)
         - (IF ~Truthy(assignment.instrument_number) THEN NoInstrumentPenalty ELSE 0)
         - (IF ~Truthy(assignment.assignor_name) THEN NoPartyPenalty ELSE 0)
         - (IF ~Truthy(assignment.assignee_name) THEN NoPartyPenalty ELSE 0))

\* a string method called on a truthy value that is not a string throws a
\* TypeError: analyzeMERSRole calls partyName.toLowerCase() (line 1072)
Throws(assignment) ==
  assignment.assignor_name = NonString \/ assignment.assignee_name = NonString

EffectiveAssignor(assignment) ==
  LET assignorOriginal == assignment.assignor_name
      assignorMersInfo == analyzeMERSRole(assignorOriginal)
      assignorPOAInfo == analyzePOARole(assignorOriginal,
                                        Or(assignment.principal_name, assignment.poa_principal))
  IN IF assignorMersInfo.isMERS /\ Truthy(assignorMersInfo.effectiveName)
       THEN assignorMersInfo.effectiveName
     ELSE IF assignorPOAInfo.isPOA /\ Truthy(assignorPOAInfo.effectiveName)
       THEN assignorPOAInfo.effectiveName
     ELSE IF Truthy(assignment.poa_principal) /\ Truthy(assignorOriginal)
               /\ includes(toLowerCase(assignorOriginal), <<"a","t","t","o","r","n","e","y">>)
       THEN assignment.poa_principal
     ELSE assignorOriginal

\* an effective assignee that leaves an unnamed nominee without a party
EffectiveAssigneeNoDefault(assignment, originalLender) ==
  IF analyzeMERSRole(assignment.assignee_name).isMERS
  THEN analyzeMERSRole(assignment.assignee_name).effectiveName
  ELSE assignment.assignee_name

EffectiveAssignee(assignment, originalLender) ==
  LET assigneeOriginal == assignment.assignee_name
      assigneeMersInfo == analyzeMERSRole(assigneeOriginal)
      assigneePOAInfo == analyzePOARole(assigneeOriginal,
                                        Or(assignment.principal_name, assignment.poa_principal))
  IN IF assigneeMersInfo.isMERS
       THEN IF Truthy(assigneeMersInfo.effectiveName)
            THEN IF includes(toLowerCase(assigneeMersInfo.effectiveName), <<"l","e","n","d","e","r">>)
                      /\ Truthy(originalLender)
                 THEN originalLender
                 ELSE assigneeMersInfo.effectiveName
            ELSE Or(originalLender, assigneeOriginal)
     ELSE IF assigneePOAInfo.isPOA /\ Truthy(assigneePOAInfo.effectiveName)
       THEN assigneePOAInfo.effectiveName
     ELSE IF Truthy(assignment.poa_principal) /\ Truthy(assigneeOriginal)
               /\ includes(toLowerCase(assigneeOriginal), <<"a","t","t","o","r","n","e","y">>)
       THEN assignment.poa_principal
     ELSE assigneeOriginal

\* one element of orderedAssignments.map(...): the fields the walk reads
Enhance(assignment, originalLender) ==
  LET effectiveAssignor == EffectiveAssignor(assignment)
      effectiveAssignee == EffectiveAssignee(assignment, originalLender)
      assignorPOAInfo == analyzePOARole(assignment.assignor_name,
                                        Or(assignment.principal_name, assignment.poa_principal))
      assigneePOAInfo == analyzePOARole(assignment.assignee_name,
                                        Or(assignment.principal_name, assignment.poa_principal))
  IN [assignor_name |-> assignment.assignor_name,
      assignee_name |-> assignment.assignee_name,
      execution_date |-> assignment.execution_date,
      recording_date |-> assignment.recording_date,
      power_of_attorney_indicator |-> assignment.power_of_attorney_indicator,
      principal_name |-> assignment.principal_name,
      assignor_original |-> assignment.assignor_name,
      assignee_original |-> assignment.assignee_name,
      assignor_normalized |-> getNormalizedName(effectiveAssignor),
      assignee_normalized |-> getNormalizedName(effectiveAssignee),
      effectiveAssignor |-> effectiveAssignor,
      effectiveAssignee |-> effectiveAssignee,
      assignor_mers_info |-> analyzeMERSRole(assignment.assignor_name),
      assignee_mers_info |-> analyzeMERSRole(assignment.assignee_name),
      mers_flag |-> (analyzeMERSRole(assignment.assignor_name).isMERS
                       \/ analyzeMERSRole(assignment.assignee_name).isMERS),
      assignor_poa_info |-> assignorPOAInfo,
      assignee_poa_info |-> assigneePOAInfo,
      poa_info |-> IF assignorPOAInfo.isPOA THEN assignorPOAInfo ELSE assigneePOAInfo,
      poa_agent |-> Or(assignment.poa_agent, Null),
      poa_principal |-> Or(assignment.poa_principal, Null),
      confidence_score |-> calculateAssignmentConfidence(assignment),
      source_page |-> assignment.chunkIndex]

-----------------------------------------------------------------------------
(* Issues.  The source pushes message strings; an issue here is the kind of *)
(* message with the values it interpolates: index is the link number of     *)
(* the "Assignment N:" messages (for a junction break, which prints no      *)
(* number, the number of the link before the junction), left and right the  *)
(* two quoted names, score the printed confidence in tenths.                *)

Issue(kind, index, left, right, score) ==
  [kind |-> kind, index |-> index, left |-> left, right |-> right, score |-> score]

MissingOriginalLender == Issue("MissingOriginalLender", 0, <<>>, <<>>, 0)
FirstLinkBreak(lender, assignor) == Issue("FirstLinkBreak", 1, lender, assignor, 0)
JunctionBreak(index, assignee, assignor) == Issue("JunctionBreak", index, assignee, assignor, 0)
AnalysisFailed(message) == Issue("AnalysisFailed", 0, message, <<>>, 0)

\* a completeness check that returns at its first finding
validateAssignmentDataFirstOnly(assignment, index) ==
  IF ~Truthy(assignment.assignor_original) /\ ~Truthy(assignment.assignor_name)
    THEN << Issue("MissingAssignor", index, <<>>, <<>>, 0) >>
  ELSE IF ~Truthy(assignment.assignee_original) /\ ~Truthy(assignment.assignee_name)
    THEN << Issue("MissingAssignee", index, <<>>, <<>>, 0) >>
  ELSE IF assignment.execution_date = NoDate
    THEN << Issue("MissingExecutionDate", index, <<>>, <<>>, 0) >>
  ELSE <<>>

\* a completeness check that takes a score of 0.7 for low
validateAssignmentDataInclusive(assignment, index) ==
  (IF ~Truthy(assignment.assignor_original) /\ ~Truthy(assignment.assignor_name)
   THEN << Issue("MissingAssignor", index, <<>>, <<>>, 0) >> ELSE <<>>)
  \o (IF ~Truthy(assignment.assignee_original) /\ ~Truthy(assignment.assignee_name)
      THEN << Issue("MissingAssignee", index, <<>>, <<>>, 0) >> ELSE <<>>)
  \o (IF assignment.execution_date = NoDate
      THEN << Issue("MissingExecutionDate", index, <<>>, <<>>, 0) >> ELSE <<>>)
  \o (IF assignment.power_of_attorney_indicator /\ ~Truthy(assignment.principal_name)
         /\ ~Truthy(assignment.poa_info.principal)
      THEN << Issue("UnresolvedPOA", index, <<>>, <<>>, 0) >> ELSE <<>>)
  \o (IF assignment.confidence_score <= LowConfidenceBelow
      THEN << Issue("LowConfidence", index, <<>>, <<>>, assignment.confidence_score) >>
      ELSE <<>>)

\* lines 1137-1157: the issues pushed for one link, in order
validateAssignmentData(assignment, index) ==
  (IF ~Truthy(assignment.assignor_original) /\ ~Truthy(assignment.assignor_name)
   THEN << Issue("MissingAssignor", index, <<>>, <<>>, 0) >> ELSE <<>>)
  \o (IF ~Truthy(assignment.assignee_original) /\ ~Truthy(assignment.assignee_name)
      THEN << Issue("MissingAssignee", index, <<>>, <<>>, 0) >> ELSE <<>>)
  \o (IF assignment.execution_date = NoDate
      THEN << Issue("MissingExecutionDate", index, <<>>, <<>>, 0) >> ELSE <<>>)
  \o (IF assignment.power_of_attorney_indicator /\ ~Truthy(assignment.principal_name)
         /\ ~Truthy(assignment.poa_info.principal)
      THEN << Issue("UnresolvedPOA", index, <<>>, <<>>, 0) >> ELSE <<>>)
  \o (IF assignment.confidence_score < LowConfidenceBelow
      THEN << Issue("LowConfidence", index, <<>>, <<>>, assignment.confidence_score) >>
      ELSE <<>>)

\* a junction check that knows no nominee passthrough
NoPassthrough(currentAssignment, nextAssignment) == FALSE

\* lines 1159-1175
checkMERSPassthrough(currentAssignment, nextAssignment) ==
  IF currentAssignment.assignee_mers_info.isMERS
       /\ Truthy(currentAssignment.assignee_mers_info.effectiveName)
  THEN advancedNameMatch(
         getNormalizedName(currentAssignment.assignee_mers_info.effectiveName),
         getNormalizedName(Or(nextAssignment.assignor_normalized,
                              nextAssignment.assignor_original)))
  ELSE IF nextAssignment.assignor_mers_info.isMERS
            /\ Truthy(nextAssignment.assignor_mers_info.effectiveName)
  THEN advancedNameMatch(
         getNormalizedName(Or(currentAssignment.assignee_normalized,
                              currentAssignment.assignee_original)),
         getNormalizedName(nextAssignment.assignor_mers_info.effectiveName))
  ELSE FALSE

\* the name of a link compared at its assignor side (lines 740-742, 779)
AssignorForMatching(assignment) ==
  Or(assignment.poa_principal, Or(assignment.effectiveAssignor, assignment.assignor_normalized))

\* the name of a link compared at its assignee side, which is also the
\* owner after the link (lines 768, 778)
AssigneeForMatching(assignment) ==
  Or(assignment.poa_principal, Or(assignment.effectiveAssignee, assignment.assignee_normalized))

\* lines 744-745
firstAssignorMatches(originalLender, firstAssignment) ==
  \/ advancedNameMatch(getNormalizedName(originalLender), AssignorForMatching(firstAssignment))
  \/ isMERSNominee(firstAssignment.effectiveAssignor, originalLender)

\* lines 747-760: the issues of the first-link check
FirstLinkIssues(originalLender, firstAssignment) ==
  IF firstAssignorMatches(originalLender, firstAssignment) THEN <<>>
  ELSE LET mersInfo == firstAssignment.assignor_mers_info
       IN IF mersInfo.isMERS /\ Truthy(mersInfo.effectiveName)
          THEN IF advancedNameMatch(getNormalizedName(originalLender),
                                    getNormalizedName(mersInfo.effectiveName))
               THEN <<>>
               ELSE << FirstLinkBreak(originalLender, AssignorForMatching(firstAssignment)) >>
          ELSE << FirstLinkBreak(originalLender, AssignorForMatching(firstAssignment)) >>

\* lines 782-783
currentMatches(currentAssignment, nextAssignment) ==
  AtLeastPct(calculateSimilarity(AssigneeForMatching(currentAssignment),
                                 AssignorForMatching(nextAssignment)),
             MatchThresholdPct)

\* lines 787-788
isPOAMatch(currentAssignment, nextAssignment) ==
  \/ Truthy(currentAssignment.poa_agent) /\ Truthy(nextAssignment.poa_principal)
  \/ Truthy(currentAssignment.poa_principal) /\ Truthy(nextAssignment.poa_agent)

\* lines 781-803: the issues of the junction after link number index
JunctionIssues(currentAssignment, nextAssignment, index) ==
  IF Truthy(AssigneeForMatching(currentAssignment))
       /\ Truthy(AssignorForMatching(nextAssignment))
       /\ ~currentMatches(currentAssignment, nextAssignment)
       /\ ~isPOAMatch(currentAssignment, nextAssignment)
       /\ ~checkMERSPassthrough(currentAssignment, nextAssignment)
  THEN << JunctionBreak(index, AssigneeForMatching(currentAssignment),
                        AssignorForMatching(nextAssignment)) >>
  ELSE <<>>

-----------------------------------------------------------------------------
(* ExcelProcessor.validateLoanData (src/unnamed/part_004, lines 159-182).  *)
(* A number field is << n >>, or <<>> when the cell gave null; rates are    *)
(* counted in thousandths and balances in dollars.                         *)

NoNumber == <<>>
Number(n) == << n >>

\* 0.5
RateCeiling == 500

\* JavaScript truthiness of an optional number: null and 0 are falsy
NonZero(v) == v # NoNumber /\ v[1] # 0

\* a validation that knows the required fields only
validateLoanDataRequiredOnly(loanData) ==
  LET errors ==
        (IF ~Truthy(loanData.borrower_name) THEN << "Borrower name is required" >> ELSE <<>>)
        \o (IF ~Truthy(loanData.property_address)
            THEN << "Property address is required" >> ELSE <<>>)
  IN [isValid |-> Len(errors) = 0, errors |-> errors]

validateLoanData(loanData) ==
  LET errors ==
        (IF ~Truthy(loanData.borrower_name) THEN << "Borrower name is required" >> ELSE <<>>)
        \o (IF ~Truthy(loanData.property_address)
            THEN << "Property address is required" >> ELSE <<>>)
        \o (IF NonZero(loanData.interest_rate)
                 /\ (loanData.interest_rate[1] < 0 \/ loanData.interest_rate[1] > RateCeiling)
            THEN << "Interest rate must be between 0% and 50%" >> ELSE <<>>)
        \o (IF NonZero(loanData.current_upb) /\ loanData.current_upb[1] < 0
            THEN << "Current UPB cannot be negative" >> ELSE <<>>)
  IN [isValid |-> Len(errors) = 0, errors |-> errors]

-----------------------------------------------------------------------------
(* The analysis call (lines 16-61) *)

\* the number of document chunks handed to the call
MaxChunks == 2
\* chunks.slice(0, 6)
ChunkLimit == 6

\* what the extraction service can return for the mortgage chunk
Lenders == { Null, <<"A","c","m","e"," ","B","a","n","k">> }

\* what the extraction service can return for an assignment chunk
Records ==
  { Assignment(<<"A","c","m","e"," ","B","a","n","k">>, <<"B","e","t","a"," ","C","o","r","p">>, On(2), On(3), <<"2","0","0","1","-","1","7">>, Null, Null),
    Assignment(<<"B","e","t","a"," ","C","o","r","p","o","r","a","t","i","o","n">>, <<"G","a","m","m","a"," ","L","L","C">>, On(3), On(4), <<"2","0","0","2","-","0","8">>, Null, Null),
    Assignment(<<"Z","e","t","a"," ","T","r","u","s","t">>, <<"K","a","p","p","a"," ","L","L","C">>, On(4), NoDate, <<"2","0","0","3","-","1","1">>, Null, Null),
    \* a power of attorney on the assignor side, found by detectPOA
    Assignment(<<"O","m","e","g","a"," ","C","o"," ","a","s"," ","a","t","t","o","r","n","e","y","-","i","n","-","f","a","c","t"," ","f","o","r"," ","A","c","m","e"," ","B","a","n","k">>, <<"B","e","t","a"," ","C","o","r","p">>, On(5), On(5),
               <<"2","0","0","4","-","0","2">>, <<"O","m","e","g","a"," ","C","o">>, <<"A","c","m","e"," ","B","a","n","k">>),
    \* a power of attorney on the assignee side
    Assignment(<<"A","c","m","e"," ","B","a","n","k">>, <<"S","i","g","m","a"," ","I","n","c"," ","a","s"," ","a","t","t","o","r","n","e","y","-","i","n","-","f","a","c","t"," ","f","o","r"," ","D","e","l","t","a"," ","F","u","n","d">>, On(6), On(7),
               <<"2","0","0","5","-","3","1">>, <<"S","i","g","m","a"," ","I","n","c">>, <<"D","e","l","t","a"," ","F","u","n","d">>),
    Assignment(<<"M","E","R","S"," ","a","s"," ","n","o","m","i","n","e","e"," ","f","o","r"," ","A","c","m","e"," ","B","a","n","k">>, <<"B","e","t","a"," ","C","o","r","p">>, On(2), On(2), <<"2","0","0","1","-","0","3">>,
               Null, Null),
    \* no assignee, no dates, no instrument number
    Assignment(<<"A","c","m","e"," ","B","a","n","k">>, Null, NoDate, NoDate, Null, Null, Null),
    \* a party name that is not a string
    Assignment(NonString, <<"B","e","t","a"," ","C","o","r","p">>, On(3), NoDate, Null, Null, Null),
    \* no party at all: extractAssignments drops it
    Assignment(Null, Null, On(2), NoDate, Null, Null, Null) }

TimedOut == <<"A","s","s","i","g","n","m","e","n","t"," ","c","h","a","i","n"," ","a","n","a","l","y","s","i","s"," ","t","i","m","e","d"," ","o","u","t">>
NotAFunction == <<"p","a","r","t","y","N","a","m","e",".","t","o","L","o","w","e","r","C","a","s","e"," ","i","s"," ","n","o","t"," ","a"," ","f","u","n","c","t","i","o","n">>

NoResult ==
  [originalLender |-> Null, assignments |-> <<>>, chainComplete |-> "none",
   chainIssues |-> <<>>, currentOwner |-> Null]

\* a catch block that lets the error through
Rethrow(message) == [outcome |-> "rejected", result |-> NoResult]

\* the catch block of analyzeAssignmentChain (lines 28-38): the call is
\* fulfilled with the fallback result; chainComplete is null
OnFailure(message) ==
  [outcome |-> "fulfilled",
   result |-> [originalLender |-> Null, assignments |-> <<>>, chainComplete |-> "null",
               chainIssues |-> << AnalysisFailed(message) >>, currentOwner |-> Null]]

VARIABLES
  pc,                   \* the step performAnalysis is at
  timer,                \* the 25 second timer: "armed" or "fired"
  outcome,              \* the promise of the call: "pending", "fulfilled", "rejected"
  result,               \* the value the call is fulfilled with
  originalLender,
  chunk,                \* chunks processed by extractAssignments
  assignments,          \* the array extractAssignments builds and sort reorders
  enhancedAssignments,
  issues,
  isComplete,
  currentOwner,
  i,                    \* the loop variable of the walk, counted from 1
  name,                 \* a text handed to getNormalizedName
  normalized,           \* the texts getNormalizedName returned, in order
  list,                 \* an array handed to orderAssignmentsChronologically
  ordered,              \* the array it returned
  given,                \* what that array held when it was handed over
  runs,                 \* the results of the earlier runs on the same input
  input,                \* the arguments of a call of one of the pure methods
  output                \* what the call returned, as a one-element sequence

engine == << pc, timer, outcome, result, originalLender, chunk, assignments,
             enhancedAssignments, issues, isComplete, currentOwner, i >>
normalizer == << name, normalized >>
orderer == << list, ordered, given >>
resolver == << runs >>
caller == << input, output >>
vars == << engine, normalizer, orderer, resolver, caller >>

Init ==
  /\ pc = "lender"
  /\ timer = "armed"
  /\ outcome = "pending"
  /\ result = NoResult
  /\ originalLender = Null
  /\ chunk = 0
  /\ assignments = <<>>
  /\ enhancedAssignments = <<>>
  /\ issues = <<>>
  /\ isComplete = TRUE
  /\ currentOwner = Null
  /\ i = 0
  /\ name = <<>>
  /\ normalized = <<>>
  /\ list = <<>>
  /\ ordered = <<>>
  /\ given = <<>>
  /\ runs = <<>>
  /\ input = <<>>
  /\ output = <<>>

\* a promise that takes every settlement
SettleAlways(o) == outcome' = o.outcome /\ result' = o.result

\* Promise.race (line 26) settles once: a later settlement is ignored
Settle(o) ==
  IF outcome = "pending"
  THEN outcome' = o.outcome /\ result' = o.result
  ELSE UNCHANGED << outcome, result >>

\* line 45: await this.extractOriginalLender(...)
ExtractOriginalLender ==
  /\ pc = "lender"
  /\ \E lender \in Lenders : originalLender' = lender
  /\ pc' = "assignments"
  /\ UNCHANGED << timer, outcome, result, chunk, assignments, enhancedAssignments,
                  issues, isComplete, currentOwner, i, normalizer, orderer,
                  resolver, caller >>

\* one iteration of the loop of extractAssignments (lines 171-211): the
\* record of the chunk is kept when it names a party
ExtractAssignment ==
  /\ pc = "assignments"
  /\ chunk < MaxChunks
  /\ chunk < ChunkLimit
  /\ chunk' = chunk + 1
  /\ \E assignment \in Records :
       assignments' =
         IF Truthy(assignment.assignor_name) \/ Truthy(assignment.assignee_name)
         THEN Append(assignments, [assignment EXCEPT !.chunkIndex = chunk + 1])
         ELSE assignments
  /\ UNCHANGED << pc, timer, outcome, result, originalLender, enhancedAssignments,
                  issues, isComplete, currentOwner, i, normalizer, orderer,
                  resolver, caller >>

\* line 51, once extractAssignments has returned: the array is sorted in place
Order ==
  /\ pc = "assignments"
  /\ assignments' = orderAssignmentsChronologically(assignments)
  /\ pc' = "validate"
  /\ UNCHANGED << timer, outcome, result, originalLender, chunk, enhancedAssignments,
                  issues, isComplete, currentOwner, i, normalizer, orderer,
                  resolver, caller >>

\* a start of validateAssignmentChain that returns when the lender is missing
ValidateStartHalting ==
  /\ pc = "validate"
  /\ currentOwner' = originalLender
  /\ issues' = IF ~Truthy(originalLender) THEN << MissingOriginalLender >> ELSE <<>>
  /\ isComplete' = Truthy(originalLender)
  /\ pc' = IF Len(assignments) = 0 \/ ~Truthy(originalLender) THEN "return" ELSE "enhance"
  /\ UNCHANGED << timer, outcome, result, originalLender, chunk, assignments,
                  enhancedAssignments, i, normalizer, orderer,
                  resolver, caller >>

\* lines 638-653: the start of validateAssignmentChain
ValidateStart ==
  /\ pc = "validate"
  /\ currentOwner' = originalLender
  /\ issues' = IF ~Truthy(originalLender) THEN << MissingOriginalLender >> ELSE <<>>
  /\ isComplete' = Truthy(originalLender)
  /\ pc' = IF Len(assignments) = 0 THEN "return" ELSE "enhance"
  /\ UNCHANGED << timer, outcome, result, originalLender, chunk, assignments,
                  enhancedAssignments, i, normalizer, orderer,
                  resolver, caller >>

\* lines 656-732: orderedAssignments.map(...).  A party name that is not a
\* string makes the map throw; the rejection reaches the catch block.
EnhanceAssignments ==
  /\ pc = "enhance"
  /\ IF \E k \in 1..Len(assignments) : Throws(assignments[k])
     THEN /\ pc' = "done"
          /\ Settle(OnFailure(NotAFunction))
          /\ UNCHANGED enhancedAssignments
     ELSE /\ pc' = "first"
          /\ enhancedAssignments' =
               [k \in 1..Len(assignments) |-> Enhance(assignments[k], originalLender)]
          /\ UNCHANGED << outcome, result >>
  /\ UNCHANGED << timer, originalLender, chunk, assignments, issues, isComplete,
                  currentOwner, i, normalizer, orderer,
                  resolver, caller >>

\* lines 734-761
CheckFirstLink ==
  /\ pc = "first"
  /\ LET raised == IF Truthy(originalLender)
                   THEN FirstLinkIssues(originalLender, enhancedAssignments[1])
                   ELSE <<>>
     IN /\ issues' = issues \o raised
        /\ isComplete' = (isComplete /\ raised = <<>>)
  /\ i' = 1
  /\ pc' = "walk"
  /\ UNCHANGED << timer, outcome, result, originalLender, chunk, assignments,
                  enhancedAssignments, currentOwner, normalizer, orderer,
                  resolver, caller >>

\* one iteration of the walk (lines 764-808)
WalkLink ==
  /\ pc = "walk"
  /\ i <= Len(enhancedAssignments)
  /\ LET assignment == enhancedAssignments[i]
         effectiveAssignee == AssigneeForMatching(assignment)
         raised == IF i < Len(enhancedAssignments)
                   THEN JunctionIssues(assignment, enhancedAssignments[i + 1], i)
                   ELSE <<>>
     IN /\ currentOwner' = IF Truthy(effectiveAssignee) THEN effectiveAssignee ELSE currentOwner
        /\ issues' = issues \o raised \o validateAssignmentData(assignment, i)
        /\ isComplete' = (isComplete /\ raised = <<>>)
  /\ i' = i + 1
  /\ pc' = IF i = Len(enhancedAssignments) THEN "return" ELSE "walk"
  /\ UNCHANGED << timer, outcome, result, originalLender, chunk, assignments,
                  enhancedAssignments, normalizer, orderer,
                  resolver, caller >>

\* the return of validateAssignmentChain (lines 647-653, 816-821) and of
\* performAnalysis (lines 54-60)
Return ==
  /\ pc = "return"
  /\ pc' = "done"
  /\ Settle([outcome |-> "fulfilled",
             result |-> [originalLender |-> originalLender,
                         assignments |-> IF Len(assignments) = 0 THEN assignments
                                         ELSE enhancedAssignments,
                         chainComplete |-> IF isComplete THEN "true" ELSE "false",
                         chainIssues |-> issues,
                         currentOwner |-> currentOwner]])
  /\ UNCHANGED << timer, originalLender, chunk, assignments, enhancedAssignments,
                  issues, isComplete, currentOwner, i, normalizer, orderer,
                  resolver, caller >>

\* line 23: the timer fires.  The event loop runs it only while
\* performAnalysis is suspended at an await, that is during extraction, or
\* once the analysis has returned: the timer is never cleared.
Timeout ==
  /\ timer = "armed"
  /\ pc \in {"lender", "assignments", "done"}
  /\ timer' = "fired"
  /\ Settle(OnFailure(TimedOut))
  /\ UNCHANGED << pc, originalLender, chunk, assignments, enhancedAssignments,
                  issues, isComplete, currentOwner, i, normalizer, orderer,
                  resolver, caller >>

Next ==
  \/ ExtractOriginalLender
  \/ ExtractAssignment
  \/ Order
  \/ ValidateStart
  \/ EnhanceAssignments
  \/ CheckFirstLink
  \/ WalkLink
  \/ Return
  \/ Timeout

Spec == Init /\ [][Next]_vars

-----------------------------------------------------------------------------
(* Extraction of one fragment (lines 364-490, 492-575).  A fragment is what *)
(* its text makes of the calls: whether containsAssignmentData finds it,    *)
(* whether isMortgageOrigination does, how the extraction service behaves,  *)
(* the JSON it answers with and the record the patterns of                  *)
(* extractAssignmentFallback find.                                          *)

Fragment(data, origination, service, answer, patterns) ==
  [hasAssignmentData |-> data, origination |-> origination, service |-> service,
   answer |-> answer, patterns |-> patterns]

\* return null
NoRecord == [kind |-> "null"]
\* what the catch of the loop of extractAssignments receives (line 204)
Thrown == [kind |-> "thrown"]

\* lines 492-575: null for an origination, else the record of the patterns
extractAssignmentFallback(fragment) ==
  IF fragment.origination THEN NoRecord ELSE fragment.patterns

\* an extraction that lets the failure of the service through
extractAssignmentDetailsUnguarded(fragment, openai) ==
  IF fragment.origination THEN NoRecord
  ELSE IF ~openai THEN extractAssignmentFallback(fragment)
  ELSE IF fragment.service = "answers" THEN fragment.answer
  ELSE Thrown

\* lines 364-490: the failure and the 10 second timeout of the service are
\* caught (line 486) and answered by the fallback
extractAssignmentDetails(fragment, openai) ==
  IF fragment.origination THEN NoRecord
  ELSE IF ~openai THEN extractAssignmentFallback(fragment)
  ELSE IF fragment.service = "answers" THEN fragment.answer
  ELSE extractAssignmentFallback(fragment)

\* line 188
HasParty(assignment) ==
  /\ assignment # NoRecord
  /\ (Truthy(assignment.assignor_name) \/ Truthy(assignment.assignee_name))

\* lines 182-206: the body of the loop for chunk index
Pushed(gathered, hasAssignmentData, assignment, index) ==
  IF hasAssignmentData /\ assignment # Thrown /\ HasParty(assignment)
  THEN Append(gathered, [assignment EXCEPT !.chunkIndex = index])
  ELSE gathered

\* the loop of extractAssignments (lines 171-211) from chunk index on: a record
\* that names a party is pushed with its chunkIndex, and what
\* extractAssignmentDetails throws is caught (line 204)
RECURSIVE GatherFrom(_, _, _, _)
GatherFrom(chunksToProcess, openai, index, gathered) ==
  IF index > Len(chunksToProcess) THEN gathered
  ELSE GatherFrom(chunksToProcess, openai, index + 1,
                  Pushed(gathered, chunksToProcess[index].hasAssignmentData,
                         extractAssignmentDetails(chunksToProcess[index], openai), index))

\* lines 164-219
extractAssignments(chunks, openai) ==
  GatherFrom(SubSeq(chunks, 1, IF Len(chunks) < ChunkLimit THEN Len(chunks) ELSE ChunkLimit),
             openai, 1, <<>>)

-----------------------------------------------------------------------------
(* getNormalizedName applied to party names, and again to its own output *)

\* the number of corporate-form abbreviations a party name carries
MaxForms == 1
\* the number of times the normalizer is applied in a row
MaxApplications == 2

BaseNames == { <<"A","c","m","e">>, <<"B","e","t","a"," ","H","o","l","d","i","n","g","s">>, <<"W","e","l","l","s"," ","F","a","r","g","o"," ","B","a","n","k">>, <<"F","i","r","s","t"," ","N","a","t","i","o","n","a","l"," ","B","a","n","k">>,
               <<"O","m","e","g","a"," ","M","o","r","t","g","a","g","e">> }
CorporateForms == { <<" ","C","o","r","p",".">>, <<" ","I","n","c",".">>, <<" ","L","t","d",".">>, <<","," ","N",".","A",".">>, <<" ","L",".","P",".">>, <<" ","C","o",".">>,
                    <<" ","C","o","r","p","o","r","a","t","i","o","n">>, <<" ","L","L","C">> }

RECURSIVE WithForms(_)
WithForms(n) ==
  IF n = 0 THEN BaseNames
  ELSE WithForms(n - 1)
         \cup { base \o form : base \in WithForms(n - 1), form \in CorporateForms }

PartyNames == WithForms(MaxForms)

\* the engine at rest
Idle ==
  /\ pc = "idle"
  /\ timer = "armed"
  /\ outcome = "pending"
  /\ result = NoResult
  /\ originalLender = Null
  /\ chunk = 0
  /\ assignments = <<>>
  /\ enhancedAssignments = <<>>
  /\ issues = <<>>
  /\ isComplete = TRUE
  /\ currentOwner = Null
  /\ i = 0

InitNorm ==
  /\ Idle
  /\ name \in PartyNames
  /\ normalized = <<>>
  /\ list = <<>>
  /\ ordered = <<>>
  /\ given = <<>>
  /\ runs = <<>>
  /\ input = <<>>
  /\ output = <<>>

\* normalized = getNormalizedName(name), then getNormalizedName of that, ...
Normalize ==
  /\ Len(normalized) < MaxApplications
  /\ normalized' = Append(normalized,
                          getNormalizedName(IF normalized = <<>> THEN name
                                            ELSE normalized[Len(normalized)]))
  /\ UNCHANGED << engine, name, orderer, resolver, caller >>

NextNorm == Normalize

SpecNorm == InitNorm /\ [][NextNorm]_vars

-----------------------------------------------------------------------------
(* orderAssignmentsChronologically applied to arrays of records *)

\* the length of the array
MaxLinks == 3
\* the latest day number a date takes; day 0 is before 1900-01-01
MaxDay == 2

Dates == { NoDate } \cup { On(d) : d \in 0..MaxDay }

InitOrder ==
  /\ Idle
  /\ name = <<>>
  /\ normalized = <<>>
  /\ list = <<>>
  /\ ordered = <<>>
  /\ given = <<>>
  /\ runs = <<>>
  /\ input = <<>>
  /\ output = <<>>

\* assignments.push({...assignment, chunkIndex: i + 1}) (lines 189-193): of a
\* record the comparator reads the two dates only
PushRecord ==
  /\ Len(list) < MaxLinks
  /\ ordered = <<>>
  /\ \E exec \in Dates, rec \in Dates :
       list' = Append(list, [execution_date |-> exec, recording_date |-> rec,
                             chunkIndex |-> Len(list) + 1])
  /\ UNCHANGED << engine, normalizer, ordered, given, resolver, caller >>

\* ordered = orderAssignmentsChronologically(list): Array.prototype.sort
\* (line 612) sorts the array it is called on and returns that same array
OrderList ==
  /\ list # <<>>
  /\ ordered = <<>>
  /\ given' = list
  /\ list' = orderAssignmentsChronologically(list)
  /\ ordered' = list'
  /\ UNCHANGED << engine, normalizer, resolver, caller >>

NextOrder == PushRecord \/ OrderList

SpecOrder == InitOrder /\ [][NextOrder]_vars


-----------------------------------------------------------------------------
(* The resolution (lines 50-51) run again on the same array and the same    *)
(* original lender                                                          *)

\* the number of runs on one input
MaxRuns == 2

\* the result is kept, and orderAssignmentsChronologically and
\* validateAssignmentChain are called again with the array as the run
\* before left it
RunAgain ==
  /\ pc = "done"
  /\ Len(runs) + 1 < MaxRuns
  /\ runs' = Append(runs, result)
  /\ assignments' = orderAssignmentsChronologically(assignments)
  /\ outcome' = "pending"
  /\ result' = NoResult
  /\ pc' = "validate"
  /\ UNCHANGED << timer, originalLender, chunk, enhancedAssignments, issues, isComplete,
                  currentOwner, i, normalizer, orderer, caller >>

NextTwice ==
  \/ ExtractOriginalLender
  \/ ExtractAssignment
  \/ Order
  \/ ValidateStart
  \/ EnhanceAssignments
  \/ CheckFirstLink
  \/ WalkLink
  \/ Return
  \/ RunAgain

SpecTwice == Init /\ [][NextTwice]_vars

-----------------------------------------------------------------------------
(* validateAssignmentChain on a chain of one link, for every combination   *)
(* of the roles a party text can carry                                     *)

Beneficiary == <<"A","c","m","e"," ","B","a","n","k">>
Agent == <<"O","m","e","g","a"," ","C","o">>
DeclaredPrincipal == <<"D","e","l","t","a"," ","F","u","n","d">>
DetectedPrincipal == <<"Z","e","t","a"," ","T","r","u","s","t">>

\* a nominee with its "as nominee for" clause
NomineeFor(party) == <<"M","E","R","S"," ","a","s"," ","n","o","m","i","n","e","e"," ","f","o","r"," ">> \o party
\* an attorney-in-fact with its "attorney-in-fact for" clause
AttorneyFor(agent, party) == agent \o <<" ","a","s"," ","a","t","t","o","r","n","e","y","-","i","n","-","f","a","c","t"," ","f","o","r"," ">> \o party

PartyTexts ==
  { Beneficiary,
    NomineeFor(Beneficiary),
    <<"M","E","R","S">>,
    AttorneyFor(Agent, Beneficiary),
    Agent \o <<","," ","a","t","t","o","r","n","e","y"," ","i","n"," ","f","a","c","t">>,
    AttorneyFor(Agent, NomineeFor(Beneficiary)),
    AttorneyFor(Agent, <<"M","E","R","S">>) }

\* what the extraction says about a power of attorney: the indicator and the
\* principal_name of the JSON answer (lines 387-388, 413-414), and the
\* poa_agent and poa_principal of detectPOA, which sets the indicator
\* (lines 449-452)
POAFields ==
  { [power_of_attorney_indicator |-> flag, principal_name |-> declared,
     poa_agent |-> Null, poa_principal |-> Null] :
      flag \in BOOLEAN, declared \in { Null, DeclaredPrincipal } }
  \cup { [power_of_attorney_indicator |-> TRUE, principal_name |-> Null,
          poa_agent |-> Agent, poa_principal |-> DetectedPrincipal] }

LinkRecords ==
  { [assignor_name |-> assignor, assignee_name |-> assignee,
     execution_date |-> On(2), recording_date |-> On(3),
     instrument_number |-> <<"2","0","0","1","-","1","7">>,
     power_of_attorney_indicator |-> poa.power_of_attorney_indicator,
     principal_name |-> poa.principal_name,
     poa_agent |-> poa.poa_agent, poa_principal |-> poa.poa_principal,
     chunkIndex |-> 1] :
      assignor \in PartyTexts, assignee \in PartyTexts, poa \in POAFields }

\* validateAssignmentChain is called with a lender and a chain of one record
InitLink ==
  /\ pc = "validate"
  /\ timer = "armed"
  /\ outcome = "pending"
  /\ result = NoResult
  /\ originalLender \in Lenders
  /\ chunk = 1
  /\ assignments \in { << record >> : record \in LinkRecords }
  /\ enhancedAssignments = <<>>
  /\ issues = <<>>
  /\ isComplete = TRUE
  /\ currentOwner = Null
  /\ i = 0
  /\ name = <<>>
  /\ normalized = <<>>
  /\ list = <<>>
  /\ ordered = <<>>
  /\ given = <<>>
  /\ runs = <<>>
  /\ input = <<>>
  /\ output = <<>>

NextLink ==
  \/ ValidateStart
  \/ EnhanceAssignments
  \/ CheckFirstLink
  \/ WalkLink
  \/ Return

SpecLink == InitLink /\ [][NextLink]_vars

-----------------------------------------------------------------------------
(* validateAssignmentChain on chains of two links: one junction, with       *)
(* nominees, attorneys and incomplete records on either side of it         *)

JunctionRecords ==
  { \* the assignee is a nominee; its beneficiary is the assignor of the next
    Assignment(<<"A","c","m","e"," ","B","a","n","k">>, <<"M","E","R","S"," ","a","s"," ","n","o","m","i","n","e","e"," ","f","o","r"," ","B","e","t","a"," ","C","o","r","p">>, On(2), On(3), <<"2","0","0","1","-","1","7">>,
               Null, Null),
    Assignment(<<"B","e","t","a"," ","C","o","r","p","o","r","a","t","i","o","n">>, <<"G","a","m","m","a"," ","L","L","C">>, On(3), On(4), <<"2","0","0","2","-","0","8">>, Null, Null),
    \* the assignor is a nominee
    Assignment(<<"M","E","R","S"," ","a","s"," ","n","o","m","i","n","e","e"," ","f","o","r"," ","G","a","m","m","a"," ","L","L","C">>, <<"D","e","l","t","a"," ","F","u","n","d">>, On(4), On(5), <<"2","0","0","3","-","1","1">>,
               Null, Null),
    \* a nominee assignee on a link signed under a power of attorney
    Assignment(<<"O","m","e","g","a"," ","C","o"," ","a","s"," ","a","t","t","o","r","n","e","y","-","i","n","-","f","a","c","t"," ","f","o","r"," ","A","c","m","e"," ","B","a","n","k">>,
               <<"M","E","R","S"," ","a","s"," ","n","o","m","i","n","e","e"," ","f","o","r"," ","B","e","t","a"," ","C","o","r","p">>, On(2), On(2), <<"2","0","0","1","-","0","3">>,
               <<"O","m","e","g","a"," ","C","o">>, <<"A","c","m","e"," ","B","a","n","k">>),
    Assignment(<<"B","e","t","a"," ","C","o","r","p">>, <<"G","a","m","m","a"," ","L","L","C">>, On(5), On(6), <<"2","0","0","4","-","0","2">>, Null, Null),
    Assignment(<<"Z","e","t","a"," ","T","r","u","s","t">>, <<"K","a","p","p","a"," ","L","L","C">>, On(6), On(7), <<"2","0","0","5","-","3","1">>, Null, Null),
    \* no execution date
    Assignment(<<"Z","e","t","a"," ","T","r","u","s","t">>, <<"K","a","p","p","a"," ","L","L","C">>, NoDate, On(7), <<"2","0","0","5","-","3","2">>, Null, Null),
    \* no assignor
    Assignment(Null, <<"K","a","p","p","a"," ","L","L","C">>, On(6), On(7), <<"2","0","0","5","-","3","3">>, Null, Null),
    \* no assignee, no dates, no instrument number
    Assignment(<<"A","c","m","e"," ","B","a","n","k">>, Null, NoDate, NoDate, Null, Null, Null) }

\* validateAssignmentChain is called with a lender and the two records in
\* the order orderAssignmentsChronologically gives them
InitChain ==
  /\ pc = "validate"
  /\ timer = "armed"
  /\ outcome = "pending"
  /\ result = NoResult
  /\ originalLender \in Lenders
  /\ chunk = 2
  /\ assignments \in
       { orderAssignmentsChronologically(
           << [first EXCEPT !.chunkIndex = 1], [second EXCEPT !.chunkIndex = 2] >>) :
           first \in JunctionRecords, second \in JunctionRecords }
  /\ enhancedAssignments = <<>>
  /\ issues = <<>>
  /\ isComplete = TRUE
  /\ currentOwner = Null
  /\ i = 0
  /\ name = <<>>
  /\ normalized = <<>>
  /\ list = <<>>
  /\ ordered = <<>>
  /\ given = <<>>
  /\ runs = <<>>
  /\ input = <<>>
  /\ output = <<>>

SpecChain == InitChain /\ [][NextLink]_vars

-----------------------------------------------------------------------------
(* The methods that only compute: a call with its arguments, then its return *)

Call(method, args) == [method |-> method, args |-> args]

\* no array or text is being processed
AtRest ==
  /\ Idle
  /\ name = <<>>
  /\ normalized = <<>>
  /\ list = <<>>
  /\ ordered = <<>>
  /\ given = <<>>
  /\ runs = <<>>

\* records with each of the five scored fields present, null or empty
ScoreRecords ==
  { Assignment(assignor, assignee, exec, rec, instrument, Null, Null) :
      assignor \in { Null, <<>>, <<"A","c","m","e"," ","B","a","n","k">> },
      assignee \in { Null, <<>>, <<"B","e","t","a"," ","C","o","r","p">> },
      exec \in { NoDate, On(2) },
      rec \in { NoDate, On(3) },
      instrument \in { Null, <<>>, <<"2","0","0","1","-","1","7">> } }

InitScore ==
  /\ AtRest
  /\ input \in { Call("calculateAssignmentConfidence", << record >>) : record \in ScoreRecords }
  /\ output = <<>>

Score ==
  /\ input.method = "calculateAssignmentConfidence"
  /\ output = <<>>
  /\ output' = << calculateAssignmentConfidence(input.args[1]) >>
  /\ UNCHANGED << engine, normalizer, orderer, resolver, input >>

SpecScore == InitScore /\ [][Score]_vars

-----------------------------------------------------------------------------
(* calculateSimilarity and advancedNameMatch on pairs of names *)

\* the rows of getKnownSuccessors as the names are written in documents
SpelledSuccessors ==
  { << <<"C","o","u","n","t","r","y","w","i","d","e"," ","H","o","m","e"," ","L","o","a","n","s",","," ","I","n","c","o","r","p","o","r","a","t","e","d">>, <<"B","a","n","k"," ","o","f"," ","A","m","e","r","i","c","a",","," ","N",".","A",".">> >>,
    << <<"C","o","u","n","t","r","y","w","i","d","e"," ","H","o","m","e"," ","L","o","a","n","s",","," ","I","n","c",".">>, <<"B","a","n","k"," ","o","f"," ","A","m","e","r","i","c","a",","," ","N",".","A",".">> >>,
    << <<"C","o","u","n","t","r","y","w","i","d","e"," ","B","a","n","k",","," ","N",".","A",".">>, <<"B","a","n","k"," ","o","f"," ","A","m","e","r","i","c","a",","," ","N",".","A",".">> >>,
    << <<"C","o","u","n","t","r","y","w","i","d","e"," ","B","a","n","k",","," ","F","S","B">>, <<"B","a","n","k"," ","o","f"," ","A","m","e","r","i","c","a",","," ","N",".","A",".">> >>,
    << <<"B","A","C"," ","H","o","m","e"," ","L","o","a","n","s"," ","S","e","r","v","i","c","i","n","g",","," ","L","P">>, <<"B","a","n","k"," ","o","f"," ","A","m","e","r","i","c","a",","," ","N",".","A",".">> >>,
    << <<"R","e","s","i","d","e","n","t","i","a","l"," ","F","u","n","d","i","n","g"," ","C","o","m","p","a","n","y",","," ","L","L","C">>, <<"A","l","l","y"," ","B","a","n","k">> >>,
    << <<"G","M","A","C"," ","M","o","r","t","g","a","g","e",","," ","L","L","C">>, <<"A","l","l","y"," ","B","a","n","k">> >>,
    << <<"C","h","a","s","e"," ","H","o","m","e"," ","F","i","n","a","n","c","e"," ","L","L","C">>, <<"J","P","M","o","r","g","a","n"," ","C","h","a","s","e"," ","B","a","n","k",","," ","N",".","A",".">> >>,
    << <<"W","a","s","h","i","n","g","t","o","n"," ","M","u","t","u","a","l"," ","B","a","n","k">>, <<"J","P","M","o","r","g","a","n"," ","C","h","a","s","e"," ","B","a","n","k",","," ","N",".","A",".">> >>,
    << <<"W","a","M","u">>, <<"J","P","M","o","r","g","a","n"," ","C","h","a","s","e"," ","B","a","n","k",","," ","N",".","A",".">> >>,
    << <<"W","e","l","l","s"," ","F","a","r","g","o"," ","H","o","m","e"," ","M","o","r","t","g","a","g","e">>, <<"W","e","l","l","s"," ","F","a","r","g","o"," ","B","a","n","k",","," ","N",".","A",".">> >>,
    << <<"W","o","r","l","d"," ","S","a","v","i","n","g","s"," ","B","a","n","k",","," ","F","S","B">>, <<"W","e","l","l","s"," ","F","a","r","g","o"," ","B","a","n","k",","," ","N",".","A",".">> >>,
    << <<"W","a","c","h","o","v","i","a"," ","M","o","r","t","g","a","g","e",","," ","F","S","B">>, <<"W","e","l","l","s"," ","F","a","r","g","o"," ","B","a","n","k",","," ","N",".","A",".">> >> }

\* names that are equal, equal but for case, contained in one another,
\* close to one another, or empty
ProbeNames ==
  { <<>>, <<"A","c","m","e">>, <<"A","c","m","e"," ","B","a","n","k">>, <<"A","C","M","E"," ","B","A","N","K">>, <<"A","c","m","e"," ","B","a","n","k"," ","o","f"," ","t","h","e"," ","W","e","s","t">>,
    <<"A","c","m","e"," ","H","o","m","e"," ","L","o","a","n"," ","B","a","n","k">>, <<"A","p","e","x"," ","H","o","m","e"," ","L","o","a","n"," ","B","a","n","k">>, <<"A","l","l","y"," ","B","a","n","k">>, <<"W","a","M","u">> }

NamePairs ==
  (ProbeNames \X ProbeNames)
    \cup SpelledSuccessors
    \cup { << row[2], row[1] >> : row \in SpelledSuccessors }

InitMatch ==
  /\ AtRest
  /\ input \in { Call("advancedNameMatch", pair) : pair \in NamePairs }
  /\ output = <<>>

\* the similarity of the two names as given (line 782) and of their
\* normalized forms (line 939), and the match (lines 930-951)
Compare ==
  /\ input.method = "advancedNameMatch"
  /\ output = <<>>
  /\ output' =
       << [similarity |-> calculateSimilarity(input.args[1], input.args[2]),
           normalized |-> calculateSimilarity(getNormalizedName(input.args[1]),
                                              getNormalizedName(input.args[2])),
           matches |-> advancedNameMatch(input.args[1], input.args[2])] >>
  /\ UNCHANGED << engine, normalizer, orderer, resolver, input >>

SpecMatch == InitMatch /\ [][Compare]_vars

-----------------------------------------------------------------------------
(* validateLoanData on spreadsheet rows *)

LoanRows ==
  { [borrower_name |-> borrower, property_address |-> address,
     interest_rate |-> rate, current_upb |-> upb] :
      borrower \in { Null, <<>>, <<"J","o","h","n"," ","D","o","e">> },
      address \in { Null, <<>>, <<"1","2","3"," ","M","a","i","n"," ","S","t">> },
      rate \in { NoNumber, Number(0 - 10), Number(0), Number(45), Number(RateCeiling),
                 Number(RateCeiling + 1), Number(750) },
      upb \in { NoNumber, Number(0 - 1000), Number(0), Number(250000) } }

InitLoan ==
  /\ AtRest
  /\ input \in { Call("validateLoanData", << row >>) : row \in LoanRows }
  /\ output = <<>>

ValidateLoan ==
  /\ input.method = "validateLoanData"
  /\ output = <<>>
  /\ output' = << validateLoanData(input.args[1]) >>
  /\ UNCHANGED << engine, normalizer, orderer, resolver, input >>

SpecLoan == InitLoan /\ [][ValidateLoan]_vars

-----------------------------------------------------------------------------
(* extractAssignments on documents of up to MaxFragments fragments *)

MaxFragments == 7

Nameless == Assignment(Null, Null, On(2), NoDate, Null, Null, Null)

\* containsAssignmentData is false for a mortgage origination (line 226)
Fragments ==
  { \* no assignment data in the text
    Fragment(FALSE, FALSE, "answers", Nameless, Nameless),
    \* the service answers with a record
    Fragment(TRUE, FALSE, "answers",
             Assignment(<<"A","c","m","e"," ","B","a","n","k">>, <<"B","e","t","a"," ","C","o","r","p">>, On(2), On(3), <<"2","0","0","1","-","1","7">>, Null, Null),
             Assignment(<<"A","c","m","e"," ","B","a","n","k">>, Null, On(2), NoDate, Null, Null, Null)),
    \* the service throws, the patterns find the parties
    Fragment(TRUE, FALSE, "throws", NoRecord,
             Assignment(<<"Z","e","t","a"," ","T","r","u","s","t">>, <<"K","a","p","p","a"," ","L","L","C">>, NoDate, NoDate, Null, Null, Null)),
    \* the service does not answer in time, the patterns find nothing
    Fragment(TRUE, FALSE, "timeout", NoRecord, Nameless) }

Documents == UNION { [1..n -> Fragments] : n \in 0..MaxFragments }

InitExtract ==
  /\ AtRest
  /\ input \in { Call("extractAssignments", << chunks, openai >>) :
                    chunks \in Documents, openai \in BOOLEAN }
  /\ output = <<>>

ExtractAssignments ==
  /\ input.method = "extractAssignments"
  /\ output = <<>>
  /\ output' = << extractAssignments(input.args[1], input.args[2]) >>
  /\ UNCHANGED << engine, normalizer, orderer, resolver, input >>

SpecExtract == InitExtract /\ [][ExtractAssignments]_vars
-----------------------------------------------------------------------------
(* Properties *)

\* validateAssignmentChain has run to its return statement
Validated == pc = "return"

Kinds(seq) == { seq[k].kind : k \in 1..Len(seq) }
BreakKinds == { "FirstLinkBreak", "JunctionBreak" }
MissingKinds == { "MissingOriginalLender", "MissingAssignor", "MissingAssignee",
                  "MissingExecutionDate" }

\* the junction breaks raised for the junction after link j
BreaksAt(j) ==
  { k \in 1..Len(issues) : issues[k].kind = "JunctionBreak" /\ issues[k].index = j }

\* C1: the validator reports complete exactly when the original lender is
\* known and no ChainBreak and no Missing* issue was raised, and reports
\* incomplete whenever one was raised.
C1_CompleteIffNothingRaised ==
  Validated =>
    (isComplete <=> (Truthy(originalLender)
                       /\ Kinds(issues) \cap (BreakKinds \cup MissingKinds) = {}))

\* C2: every junction whose two names are present and do not match, neither
\* under the Similarity Matcher nor through MERS passthrough, has exactly
\* one ChainBreak quoting both names, and the chain is incomplete.
C2_EveryMismatchBreaks ==
  Validated =>
    \A j \in 1..(Len(enhancedAssignments) - 1) :
      LET assignee == AssigneeForMatching(enhancedAssignments[j])
          assignor == AssignorForMatching(enhancedAssignments[j + 1])
      IN (Truthy(assignee) /\ Truthy(assignor)
            /\ ~advancedNameMatch(assignee, assignor)
            /\ ~checkMERSPassthrough(enhancedAssignments[j], enhancedAssignments[j + 1]))
           => /\ Cardinality(BreaksAt(j)) = 1
              /\ \A k \in BreaksAt(j) : issues[k].left = assignee /\ issues[k].right = assignor
              /\ ~isComplete

\* C3: no ChainBreak is raised at a junction whose two names match under the
\* Similarity Matcher.
C3_MatchingJunctionNeverBreaks ==
  Validated =>
    \A j \in 1..(Len(enhancedAssignments) - 1) :
      advancedNameMatch(AssigneeForMatching(enhancedAssignments[j]),
                        AssignorForMatching(enhancedAssignments[j + 1]))
        => BreaksAt(j) = {}

\* the first assignor is a MERS nominee for the original lender
FirstIsNomineeOfLender ==
  LET first == enhancedAssignments[1]
  IN \/ isMERSNominee(first.effectiveAssignor, originalLender)
     \/ /\ first.assignor_mers_info.isMERS
        /\ Truthy(first.assignor_mers_info.effectiveName)
        /\ advancedNameMatch(getNormalizedName(originalLender),
                             getNormalizedName(first.assignor_mers_info.effectiveName))

FirstLinkBreaks == { k \in 1..Len(issues) : issues[k].kind = "FirstLinkBreak" }

\* C4: with a known lender and a non-empty chain, no ChainBreak is raised
\* for the first link when its effective assignor matches the lender under
\* the Similarity Matcher or is a MERS nominee for it; otherwise exactly one
\* is raised, the chain is incomplete and every link is still walked.
C4_FirstLinkAgainstLender ==
  (Validated /\ Truthy(originalLender) /\ Len(enhancedAssignments) > 0) =>
    IF \/ advancedNameMatch(getNormalizedName(originalLender),
                            enhancedAssignments[1].effectiveAssignor)
       \/ FirstIsNomineeOfLender
    THEN FirstLinkBreaks = {}
    ELSE /\ Cardinality(FirstLinkBreaks) = 1
         /\ ~isComplete
         /\ i = Len(enhancedAssignments) + 1

\* C5: after a link is processed the current owner is the effective
\* assignee of that link.
C5_OwnerIsEffectiveAssignee ==
  (pc \in {"walk", "return"} /\ i > 1) =>
    (Truthy(enhancedAssignments[i - 1].effectiveAssignee)
       => currentOwner = enhancedAssignments[i - 1].effectiveAssignee)

\* C6: with no original lender and no records the result is unknown
\* completeness, no current owner and no issues.
C6_EmptyInputIsUnknown ==
  (pc = "done" /\ timer = "armed" /\ originalLender = Null /\ assignments = <<>>) =>
    /\ result.chainComplete = "null"
    /\ result.currentOwner = Null
    /\ result.chainIssues = <<>>

WellFormed(r) ==
  /\ r.chainComplete \in {"true", "false", "null"}
  /\ DOMAIN r.assignments = 1..Len(r.assignments)
  /\ r.currentOwner # NonString
  /\ \A k \in 1..Len(r.chainIssues) :
       r.chainIssues[k].kind \in BreakKinds \cup MissingKinds
                                   \cup {"UnresolvedPOA", "LowConfidence", "AnalysisFailed"}

\* C7: the call is never rejected; once the analysis has ended, or the
\* timer has fired, it is fulfilled with a well-formed result, and a failure
\* inside the analysis shows as an issue of that result.
C7_NeverRejected ==
  /\ outcome # "rejected"
  /\ (pc = "done" \/ timer = "fired") => outcome = "fulfilled"
  /\ outcome = "fulfilled" => WellFormed(result)
  /\ (outcome = "fulfilled" /\ result.chainComplete = "null")
       => "AnalysisFailed" \in Kinds(result.chainIssues)

\* a record whose party name is not a string made the enhancement throw,
\* and the call was fulfilled with the failure as its issue
C7_Witness ==
  /\ pc = "done"
  /\ timer = "armed"
  /\ \E k \in 1..Len(assignments) : Throws(assignments[k])
  /\ outcome = "fulfilled"
  /\ result.chainIssues = << AnalysisFailed(NotAFunction) >>

\* C8: normalizing a normalized name changes nothing.
C8_NormalizeIdempotent ==
  Len(normalized) >= 2 => normalized[2] = normalized[1]

HasExecution(r) == r.execution_date # NoDate
Undated(r) == r.execution_date = NoDate /\ r.recording_date = NoDate
Sorted == ordered # <<>>

\* C9: records with distinct execution dates come out in ascending
\* execution-date order whatever the input order, and a record without
\* dates comes before every record that has a date.
C9_UndatedFirst ==
  Sorted =>
    /\ \A p, q \in 1..Len(ordered) :
         (p < q /\ HasExecution(ordered[p]) /\ HasExecution(ordered[q])
            /\ \A a, b \in 1..Len(given) :
                 (a # b /\ HasExecution(given[a]) /\ HasExecution(given[b]))
                   => given[a].execution_date # given[b].execution_date)
           => ordered[p].execution_date[1] < ordered[q].execution_date[1]
    /\ \A p, q \in 1..Len(ordered) :
         (Undated(ordered[p]) /\ ~Undated(ordered[q])) => p < q

Sign(n) == IF n < 0 THEN 0 - 1 ELSE IF n > 0 THEN 1 ELSE 0

\* C10: the output is the input rearranged; it ascends by execution date,
\* records with equal execution dates ascend by recording date, records the
\* comparison holds equal keep their extraction order; and the comparison
\* is a total preorder on every combination of present and absent dates.
C10_TotalOrderStable ==
  /\ \A a, b, c \in { list[k] : k \in 1..Len(list) } :
       /\ Sign(compare(a, b)) = 0 - Sign(compare(b, a))
       /\ (compare(a, b) <= 0 /\ compare(b, c) <= 0) => compare(a, c) <= 0
  /\ Sorted =>
       /\ Len(ordered) = Len(given)
       /\ \A k \in 1..Len(given) : \E p \in 1..Len(ordered) : ordered[p] = given[k]
       /\ \A p, q \in 1..Len(ordered) :
            p < q =>
              /\ compare(ordered[p], ordered[q]) <= 0
              /\ compare(ordered[p], ordered[q]) = 0
                   => ordered[p].chunkIndex < ordered[q].chunkIndex
              /\ (HasExecution(ordered[p]) /\ HasExecution(ordered[q]))
                   => ordered[p].execution_date[1] <= ordered[q].execution_date[1]
              /\ (ordered[p].execution_date = ordered[q].execution_date
                    /\ ordered[p].recording_date # NoDate
                    /\ ordered[q].recording_date # NoDate)
                   => ordered[p].recording_date[1] <= ordered[q].recording_date[1]

\* three records: two share an execution date and were extracted in the
\* reverse of their recording order, a third ties with one of them on both
\* dates and stays behind it
C10_Witness ==
  /\ Len(ordered) = 3
  /\ \E p, q \in 1..3 :
       /\ p < q
       /\ HasExecution(ordered[p])
       /\ ordered[p].execution_date = ordered[q].execution_date
       /\ ordered[p].recording_date # NoDate /\ ordered[q].recording_date # NoDate
       /\ ordered[p].recording_date[1] < ordered[q].recording_date[1]
       /\ ordered[p].chunkIndex > ordered[q].chunkIndex
  /\ \E p, q \in 1..3 :
       /\ p < q
       /\ compare(ordered[p], ordered[q]) = 0
       /\ ordered[p].chunkIndex < ordered[q].chunkIndex


\* C11: the sequencer returns the ordered sequence and leaves the list it
\* was given, and every record in it, as they were.
C11_InputLeftUnchanged ==
  Sorted =>
    /\ list = given
    /\ \A p \in 1..Len(ordered) : \E k \in 1..Len(given) : ordered[p] = given[k]

-----------------------------------------------------------------------------
(* Role analysis of the two party texts of a link *)

NomineeMarkers == { <<"m","e","r","s">>, <<"m","o","r","t","g","a","g","e"," ","e","l","e","c","t","r","o","n","i","c"," ","r","e","g","i","s","t","r","a","t","i","o","n">> }
AttorneyMarkers == { <<"a","t","t","o","r","n","e","y","-","i","n","-","f","a","c","t">>, <<"a","t","t","o","r","n","e","y"," ","i","n"," ","f","a","c","t">>, <<" ","a","i","f"," ">>, <<" ","p","o","a"," ">> }

Carries(text, markers) ==
  Truthy(text) /\ \E marker \in markers : includes(toLowerCase(text), marker)

Links == 1..Len(enhancedAssignments)
IssuesOf(kind, k) == { q \in 1..Len(issues) : issues[q].kind = kind /\ issues[q].index = k }

\* the text is both a nominee with a beneficiary and an attorney-in-fact
\* with a known principal
BothRoles(mers, poa) ==
  mers.isMERS /\ Truthy(mers.effectiveName) /\ poa.isPOA /\ Truthy(poa.principal)

\* C13: for a party text that matches both the nominee pattern and the
\* attorney-in-fact pattern and whose principal is known, the effective
\* party of that side, assignor and assignee alike, is the POA principal
\* and not the nominee's effective name.
C13_PrincipalOverNominee ==
  Validated =>
    \A k \in Links :
      LET e == enhancedAssignments[k]
      IN /\ BothRoles(e.assignor_mers_info, e.assignor_poa_info)
              => e.effectiveAssignor = e.assignor_poa_info.principal
         /\ BothRoles(e.assignee_mers_info, e.assignee_poa_info)
              => e.effectiveAssignee = e.assignee_poa_info.principal

\* the parties named in the clauses of the texts
ClauseParties == { Beneficiary, NomineeFor(Beneficiary) }

EndsWith(text, tail) ==
  Len(text) >= Len(tail) /\ Sub(text, Len(text) - Len(tail) + 1, Len(text)) = tail

NomineeDetected(text, mers) ==
  /\ mers.isMERS <=> Carries(text, NomineeMarkers)
  /\ \A party \in ClauseParties :
       (Truthy(text) /\ EndsWith(text, NomineeFor(party)))
         => mers.effectiveName = getNormalizedName(party)
  /\ (mers.isMERS /\ ~includes(toLowerCase(text), <<"n","o","m","i","n","e","e"," ","f","o","r">>))
       => mers.effectiveName = Null

\* C14: a name with a nominee-registry marker is classified as a MERS
\* nominee; with an "as nominee for X" clause its effective name is the
\* normalized X, without one it is None; a name without the marker is never
\* classified as a MERS nominee.
C14_NomineeDetection ==
  Validated =>
    \A k \in Links :
      LET e == enhancedAssignments[k]
      IN /\ NomineeDetected(e.assignor_name, e.assignor_mers_info)
         /\ NomineeDetected(e.assignee_name, e.assignee_mers_info)

UnnamedNominee(mers) == mers.isMERS /\ ~Truthy(mers.effectiveName)

\* C16: a link with a MERS nominee that names no beneficial party is
\* surfaced as low confidence: its confidence is reduced or a LowConfidence
\* issue is raised for it.
C16_UnnamedNomineeLowConfidence ==
  Validated =>
    \A k \in Links :
      LET e == enhancedAssignments[k]
      IN (UnnamedNominee(e.assignor_mers_info) \/ UnnamedNominee(e.assignee_mers_info))
           => \/ e.confidence_score < FullConfidence
              \/ IssuesOf("LowConfidence", k) # {}

PrincipalResolved(text, declared, poa) ==
  /\ Carries(text, AttorneyMarkers) =>
       /\ poa.isPOA
       /\ Truthy(declared) => poa.principal = declared
       /\ ~Truthy(declared) =>
            \A party \in ClauseParties :
              text = AttorneyFor(Agent, party) => poa.principal = party
  /\ ~Carries(text, AttorneyMarkers) => ~poa.isPOA

\* C17: for a name carrying the attorney-in-fact marker, the principal is
\* the declared principal whenever one is supplied, and otherwise the text
\* captured from the "attorney-in-fact for ..." clause; a name without
\* the marker is never classified as POA, even if a principal is declared.
C17_PrincipalSource ==
  Validated =>
    \A k \in Links :
      LET e == enhancedAssignments[k]
          declared == Or(e.principal_name, e.poa_principal)
      IN /\ PrincipalResolved(e.assignor_name, declared, e.assignor_poa_info)
         /\ PrincipalResolved(e.assignee_name, declared, e.assignee_poa_info)

\* the declared principal wins over the clause on the assignor side, and
\* the assignee, which has no marker, is no attorney although a principal
\* is declared
C17_Witness ==
  /\ Validated
  /\ Len(enhancedAssignments) = 1
  /\ enhancedAssignments[1].assignor_name = AttorneyFor(Agent, Beneficiary)
  /\ enhancedAssignments[1].assignee_name = NomineeFor(Beneficiary)
  /\ enhancedAssignments[1].principal_name = DeclaredPrincipal
  /\ enhancedAssignments[1].assignor_poa_info.principal = DeclaredPrincipal
  /\ ~enhancedAssignments[1].assignee_poa_info.isPOA

\* the clause supplies the principal when none is declared
C17_ClauseWitness ==
  /\ Validated
  /\ Len(enhancedAssignments) = 1
  /\ enhancedAssignments[1].assignor_name = AttorneyFor(Agent, Beneficiary)
  /\ ~Truthy(Or(enhancedAssignments[1].principal_name, enhancedAssignments[1].poa_principal))
  /\ enhancedAssignments[1].assignor_poa_info.principal = Beneficiary

POAIndicated(e) ==
  \/ e.power_of_attorney_indicator
  \/ Carries(e.assignor_name, AttorneyMarkers)
  \/ Carries(e.assignee_name, AttorneyMarkers)

PrincipalDetermined(e) ==
  \/ Truthy(e.principal_name)
  \/ Truthy(e.poa_principal)
  \/ Truthy(e.assignor_poa_info.principal)
  \/ Truthy(e.assignee_poa_info.principal)

\* C18: every link on which a power of attorney is indicated, by the flag
\* or by a marker in a party name, and for which no principal can be
\* determined raises an UnresolvedPOA issue and is kept; no such issue is
\* raised for a link whose principal was determined.
C18_UnresolvedPOARaised ==
  Validated =>
    /\ Len(enhancedAssignments) = Len(assignments)
    /\ \A k \in Links :
         LET e == enhancedAssignments[k]
         IN /\ (POAIndicated(e) /\ ~PrincipalDetermined(e)) => IssuesOf("UnresolvedPOA", k) # {}
            /\ PrincipalDetermined(e) => IssuesOf("UnresolvedPOA", k) = {}

-----------------------------------------------------------------------------
(* Junctions *)

Junctions == 1..(Len(enhancedAssignments) - 1)

NamesBeneficiary(mers, party) ==
  mers.isMERS /\ Truthy(mers.effectiveName) /\ Truthy(party)
    /\ advancedNameMatch(mers.effectiveName, party)

\* one side of the junction after link j is a nominee whose beneficiary
\* matches the effective party of the other side
NomineePassthrough(j) ==
  LET current == enhancedAssignments[j]
      next == enhancedAssignments[j + 1]
  IN \/ NamesBeneficiary(current.assignee_mers_info, next.effectiveAssignor)
     \/ NamesBeneficiary(next.assignor_mers_info, current.effectiveAssignee)

CompletenessKinds == { "MissingAssignor", "MissingAssignee", "MissingExecutionDate" }

\* the completeness findings of a link, from its fields
Incomplete(e) ==
  (IF ~Truthy(e.assignor_name) THEN { "MissingAssignor" } ELSE {})
    \cup (IF ~Truthy(e.assignee_name) THEN { "MissingAssignee" } ELSE {})
    \cup (IF e.execution_date = NoDate THEN { "MissingExecutionDate" } ELSE {})

JunctionChecked(j) ==
  BreaksAt(j) # {}
    <=> JunctionIssues(enhancedAssignments[j], enhancedAssignments[j + 1], j) # <<>>

\* C19: for every link, a missing assignor, a missing assignee and a missing
\* execution date each raise their own issue naming the link's position,
\* and raising them stops neither the check of the link's junction nor the
\* validation of the later links.
C19_CompletenessIndependent ==
  Validated =>
    /\ \A k \in Links : \A kind \in CompletenessKinds :
         Cardinality(IssuesOf(kind, k))
           = IF kind \in Incomplete(enhancedAssignments[k]) THEN 1 ELSE 0
    /\ \A j \in Junctions : JunctionChecked(j)

\* both links lack their execution date and the junction between them
\* breaks: each link has its own issue, after the break as before it
C19_Witness ==
  /\ Validated
  /\ Len(enhancedAssignments) = 2
  /\ Incomplete(enhancedAssignments[1]) = { "MissingExecutionDate" }
  /\ BreaksAt(1) # {}
  /\ Incomplete(enhancedAssignments[2]) = { "MissingExecutionDate" }
  /\ IssuesOf("MissingExecutionDate", 1) # {}
  /\ IssuesOf("MissingExecutionDate", 2) # {}

\* one link lacks its assignee and its execution date, the other its assignor
C19_TwoFindings ==
  /\ Validated
  /\ Len(enhancedAssignments) = 2
  /\ Incomplete(enhancedAssignments[1]) = { "MissingAssignee", "MissingExecutionDate" }
  /\ Incomplete(enhancedAssignments[2]) = { "MissingAssignor" }
  /\ IssuesOf("MissingAssignee", 1) # {}
  /\ IssuesOf("MissingExecutionDate", 1) # {}
  /\ IssuesOf("MissingAssignor", 2) # {}

PerLinkReported(k) ==
  LET raised == validateAssignmentData(enhancedAssignments[k], k)
  IN \A q \in 1..Len(raised) : \E p \in 1..Len(issues) : issues[p] = raised[q]

\* validateAssignmentChain has come to its return statement, and the call
\* may have returned its result
ReachedReturn ==
  \/ pc = "return"
  \/ pc = "done" /\ outcome = "fulfilled" /\ result.chainComplete \in { "true", "false" }

\* C20: with no original lender, MissingOriginalLender is raised exactly
\* once and the validation goes on over a non-empty chain: every link is
\* enriched and returned, every junction is checked and the per-link issues
\* are reported.
C20_GoesOnWithoutLender ==
  (ReachedReturn /\ ~Truthy(originalLender) /\ assignments # <<>>) =>
    /\ Cardinality({ q \in 1..Len(issues) : issues[q].kind = "MissingOriginalLender" }) = 1
    /\ enhancedAssignments = [k \in 1..Len(assignments) |-> Enhance(assignments[k], Null)]
    /\ \A j \in Junctions : JunctionChecked(j)
    /\ \A k \in Links : PerLinkReported(k)
    /\ pc = "done" => /\ result.assignments = enhancedAssignments
                      /\ result.chainIssues = issues

\* no lender, a junction that breaks and a link with findings of its own
C20_Witness ==
  /\ pc = "done"
  /\ ReachedReturn
  /\ ~Truthy(originalLender)
  /\ Len(result.assignments) = 2
  /\ "MissingOriginalLender" \in Kinds(result.chainIssues)
  /\ "JunctionBreak" \in Kinds(result.chainIssues)
  /\ "MissingAssignor" \in Kinds(result.chainIssues)

-----------------------------------------------------------------------------
(* The methods that only compute *)

\* the method was called and has returned
Returned(method) == input # <<>> /\ input.method = method /\ output # <<>>

\* the fields of a record that are missing, of the five the score reads
Unpopulated(r) ==
  (IF r.execution_date = NoDate THEN { "execution_date" } ELSE {})
    \cup (IF r.recording_date = NoDate THEN { "recording_date" } ELSE {})
    \cup (IF ~Truthy(r.instrument_number) THEN { "instrument_number" } ELSE {})
    \cup (IF ~Truthy(r.assignor_name) THEN { "assignor_name" } ELSE {})
    \cup (IF ~Truthy(r.assignee_name) THEN { "assignee_name" } ELSE {})

ScoredFields ==
  { "execution_date", "recording_date", "instrument_number", "assignor_name",
    "assignee_name" }

\* tenths deducted: 0.2, 0.1, 0.1, 0.3, 0.3
Deducted(missing) ==
  (IF "execution_date" \in missing THEN 2 ELSE 0)
    + (IF "recording_date" \in missing THEN 1 ELSE 0)
    + (IF "instrument_number" \in missing THEN 1 ELSE 0)
    + (IF "assignor_name" \in missing THEN 3 ELSE 0)
    + (IF "assignee_name" \in missing THEN 3 ELSE 0)

\* C21: the confidence score of a record is max(0.1, 1.0 less 0.2, 0.1, 0.1,
\* 0.3 and 0.3 for a missing execution date, recording date, instrument
\* number, assignor and assignee); it lies within [0.1, 1.0], is 1.0 only
\* for a fully populated record and is 0.1 when all five are missing.
C21_ConfidenceScore ==
  Returned("calculateAssignmentConfidence") =>
    LET missing == Unpopulated(input.args[1])
        score == output[1]
    IN /\ score = (IF 10 - Deducted(missing) >= 1 THEN 10 - Deducted(missing) ELSE 1)
       /\ score >= 1 /\ score <= 10
       /\ score = 10 <=> missing = {}
       /\ missing = ScoredFields => score = 1

\* all five fields are missing and the score is at the floor
C21_Witness ==
  /\ Returned("calculateAssignmentConfidence")
  /\ Unpopulated(input.args[1]) = ScoredFields
  /\ output[1] = 1

\* C22: a LowConfidence issue is raised for a link exactly when its score is
\* below 0.7, a score of exactly 0.7 raising none, and a LowConfidence issue
\* alone never makes the chain incomplete.
C22_LowConfidenceBelowThreshold ==
  Validated =>
    /\ \A k \in Links :
         Cardinality(IssuesOf("LowConfidence", k))
           = IF enhancedAssignments[k].confidence_score < 7 THEN 1 ELSE 0
    /\ ~isComplete => Kinds(issues) \ { "LowConfidence" } # {}

\* one link scores 0.3 and has the issue, the other scores exactly 0.7 and
\* has none, and the chain is complete
C22_Witness ==
  /\ Validated
  /\ Len(enhancedAssignments) = 2
  /\ enhancedAssignments[1].confidence_score = 3
  /\ IssuesOf("LowConfidence", 1) # {}
  /\ enhancedAssignments[2].confidence_score = 7
  /\ IssuesOf("LowConfidence", 2) = {}
  /\ isComplete

-----------------------------------------------------------------------------
(* Similarity Matcher *)

InUnit(sim) == sim.num >= 0 /\ sim.num <= sim.den /\ sim.den > 0
IsOne(sim) == sim.num = sim.den /\ sim.den > 0

\* C23: similarity(a, b) is within [0, 1] for all pairs of names and is
\* exactly 1.0 whenever the two normalized texts are equal, also when both
\* normalize to the empty string.
C23_SimilarityInUnitAndOneOnEqual ==
  Returned("advancedNameMatch") =>
    /\ InUnit(output[1].similarity)
    /\ InUnit(output[1].normalized)
    /\ getNormalizedName(input.args[1]) = getNormalizedName(input.args[2])
         => IsOne(output[1].normalized)

\* C24: for every pair of the known-successor table, in either order and
\* with the names in their free-text spelling, similarity returns 1.0.
C24_KnownSuccessorsMatch ==
  Returned("advancedNameMatch") =>
    ((\/ << input.args[1], input.args[2] >> \in SpelledSuccessors
      \/ << input.args[2], input.args[1] >> \in SpelledSuccessors)
       => (IsOne(output[1].similarity) \/ IsOne(output[1].normalized)))

\* (max_len - levenshtein) / max_len
EditSimilarity(norm1, norm2) ==
  LET longest == IF Len(norm1) >= Len(norm2) THEN Len(norm1) ELSE Len(norm2)
  IN [num |-> longest - levenshteinDistance(norm1, norm2), den |-> longest]

\* the four grounds of a match, on the normalized texts
MatchGrounds(norm1, norm2) ==
  \/ norm1 = norm2
  \/ SuccessorIs(norm1, norm2) \/ SuccessorIs(norm2, norm1)
  \/ (norm1 # <<>> \/ norm2 # <<>>) /\ AtLeastPct(EditSimilarity(norm1, norm2), 85)
  \/ /\ includes(norm1, norm2) \/ includes(norm2, norm1)
     /\ Len(norm1) >= 5 /\ Len(norm2) >= 5

\* C25: names_match(a, b) is true exactly when the normalized texts are
\* equal, are a known-successor pair, have an edit-distance similarity of
\* at least 0.85, or one contains the other and the shorter has at least
\* five characters; no other bonus changes the outcome.
C25_MatchGrounds ==
  (Returned("advancedNameMatch") /\ Truthy(input.args[1]) /\ Truthy(input.args[2])) =>
    (output[1].matches
       <=> MatchGrounds(getNormalizedName(input.args[1]), getNormalizedName(input.args[2])))

\* C30: the matcher is symmetric: similarity(a, b) = similarity(b, a) and
\* names_match(a, b) = names_match(b, a), for known-successor pairs and
\* names of equal length too.
C30_MatcherSymmetric ==
  Returned("advancedNameMatch") =>
    /\ output[1].similarity = calculateSimilarity(input.args[2], input.args[1])
    /\ output[1].normalized = calculateSimilarity(getNormalizedName(input.args[2]),
                                                  getNormalizedName(input.args[1]))
    /\ output[1].matches = advancedNameMatch(input.args[2], input.args[1])

\* a successor before the entity it absorbed: the table is read backwards
C30_Witness ==
  /\ Returned("advancedNameMatch")
  /\ << input.args[2], input.args[1] >> \in SpelledSuccessors
  /\ IsOne(output[1].similarity)
  /\ output[1].matches

\* two different names of equal length, and a name contained in a longer one
C30_EqualLength ==
  /\ Returned("advancedNameMatch")
  /\ input.args[1] # input.args[2]
  /\ Len(input.args[1]) = Len(input.args[2])
  /\ Len(input.args[1]) > 10
  /\ output[1].matches

-----------------------------------------------------------------------------
(* Spreadsheet rows *)

Reports(errors, message) == \E k \in 1..Len(errors) : errors[k] = message

\* the rate is a number outside [0, 0.5]
RateOutOfRange(rate) == rate # NoNumber /\ (rate[1] < 0 \/ rate[1] > RateCeiling)

\* C26: isValid is true exactly when the error list is empty; a missing or
\* empty borrower name, a missing or empty property address, an interest
\* rate outside [0, 0.5] and a negative current UPB each add an error, and
\* a row with both required fields and no rule violation is valid.
C26_LoanRowValidation ==
  Returned("validateLoanData") =>
    LET row == input.args[1]
        errors == output[1].errors
    IN /\ output[1].isValid <=> errors = <<>>
       /\ Reports(errors, "Borrower name is required")
            <=> (row.borrower_name = Null \/ row.borrower_name = <<>>)
       /\ Reports(errors, "Property address is required")
            <=> (row.property_address = Null \/ row.property_address = <<>>)
       /\ Reports(errors, "Interest rate must be between 0% and 50%")
            <=> RateOutOfRange(row.interest_rate)
       /\ Reports(errors, "Current UPB cannot be negative")
            <=> (row.current_upb # NoNumber /\ row.current_upb[1] < 0)
       /\ Len(errors) <= 4

\* the row of the test suite: both names, a rate of 75% and a negative balance
C26_Witness ==
  /\ Returned("validateLoanData")
  /\ Truthy(input.args[1].borrower_name)
  /\ Truthy(input.args[1].property_address)
  /\ input.args[1].interest_rate = Number(750)
  /\ input.args[1].current_upb = Number(0 - 1000)
  /\ ~output[1].isValid
  /\ Len(output[1].errors) = 2

-----------------------------------------------------------------------------
(* The race of the analysis with the 25 second timer *)

TimeoutFallback ==
  [originalLender |-> Null, assignments |-> <<>>, chainComplete |-> "null",
   chainIssues |-> << AnalysisFailed(TimedOut) >>, currentOwner |-> Null]

TimerFires == timer = "armed" /\ timer' = "fired"
AnalysisReturns == pc = "return" /\ pc' = "done"

\* C27: the call is settled by whichever of the analysis and the timer
\* settles first.  When the timer fires first the caller gets the fallback
\* result with exactly one issue, the timeout; when the analysis returns
\* first the caller gets its result; once the call is settled, the loser's
\* settlement changes nothing.
C27_FirstSettlerWins ==
  [][ /\ (outcome = "pending" /\ TimerFires)
           => (outcome' = "fulfilled" /\ result' = TimeoutFallback)
      /\ (outcome = "pending" /\ AnalysisReturns)
           => /\ outcome' = "fulfilled"
              /\ result'.originalLender = originalLender
              /\ result'.assignments \in { assignments, enhancedAssignments }
              /\ result'.chainIssues = issues
              /\ result'.currentOwner = currentOwner
              /\ result'.chainComplete = (IF isComplete THEN "true" ELSE "false")
      /\ outcome # "pending" => (outcome' = outcome /\ result' = result) ]_vars

\* the timer won and the analysis has since run to its end
C27_Witness ==
  /\ pc = "done"
  /\ timer = "fired"
  /\ outcome = "fulfilled"
  /\ result = TimeoutFallback
  /\ Len(assignments) > 0

\* the analysis won and the timer has since fired
C27_LateTimer ==
  /\ pc = "done"
  /\ timer = "fired"
  /\ outcome = "fulfilled"
  /\ result.chainComplete \in {"true", "false"}
  /\ Len(result.assignments) > 0

-----------------------------------------------------------------------------
(* The default for a nominee that names no beneficial party *)

\* a principal stands for the party: the one analyzePOARole found, or the
\* detected one for a text that speaks of an attorney
HasPrincipal(e, text, poa) ==
  \/ Truthy(poa.principal)
  \/ Truthy(e.poa_principal) /\ Carries(text, { <<"a","t","t","o","r","n","e","y">> })

\* C28: the effective assignee of a link whose assignee is a MERS party
\* without a beneficial party is the original lender when one is known and
\* the raw assignee text otherwise; the effective assignor of a link whose
\* assignor is a MERS party without a beneficial party and without a POA
\* principal is the raw assignor text; an effective party is never empty
\* when the raw name is present.
C28_UnnamedNomineeDefault ==
  Validated =>
    \A k \in Links :
      LET e == enhancedAssignments[k]
      IN /\ UnnamedNominee(e.assignee_mers_info)
              => e.effectiveAssignee = (IF Truthy(originalLender) THEN originalLender
                                        ELSE e.assignee_name)
         /\ (UnnamedNominee(e.assignor_mers_info)
               /\ ~HasPrincipal(e, e.assignor_name, e.assignor_poa_info))
              => e.effectiveAssignor = e.assignor_name
         /\ Truthy(e.assignor_name) => Truthy(e.effectiveAssignor)
         /\ Truthy(e.assignee_name) => Truthy(e.effectiveAssignee)

\* a link from an unnamed nominee to an unnamed nominee, no lender known
C28_Witness ==
  /\ Validated
  /\ Len(enhancedAssignments) = 1
  /\ originalLender = Null
  /\ UnnamedNominee(enhancedAssignments[1].assignor_mers_info)
  /\ UnnamedNominee(enhancedAssignments[1].assignee_mers_info)
  /\ enhancedAssignments[1].effectiveAssignor = <<"M","E","R","S">>
  /\ enhancedAssignments[1].effectiveAssignee = <<"M","E","R","S">>

\* the original lender stands in for an unnamed nominee assignee
C28_LenderStandsIn ==
  /\ Validated
  /\ Len(enhancedAssignments) = 1
  /\ Truthy(originalLender)
  /\ UnnamedNominee(enhancedAssignments[1].assignee_mers_info)
  /\ enhancedAssignments[1].effectiveAssignee = originalLender
  /\ enhancedAssignments[1].effectiveAssignee # enhancedAssignments[1].assignee_name

\* an attorney-in-fact for the nominee: the principal is the assignor
C28_PrincipalStandsIn ==
  /\ Validated
  /\ Len(enhancedAssignments) = 1
  /\ UnnamedNominee(enhancedAssignments[1].assignor_mers_info)
  /\ enhancedAssignments[1].assignor_poa_info.isPOA
  /\ enhancedAssignments[1].effectiveAssignor # enhancedAssignments[1].assignor_name

-----------------------------------------------------------------------------
(* Extraction, fragment by fragment *)

\* the record extraction gives for a fragment: the answer of the service,
\* and the record of the patterns when the service is not configured,
\* throws or does not answer in time
RecordOf(fragment, openai) ==
  IF openai /\ fragment.service = "answers" THEN fragment.answer ELSE fragment.patterns

\* the fragments within the processing limit whose record is kept
KeptFragments(chunks, openai) ==
  { k \in 1..Len(chunks) :
      /\ k <= 6
      /\ chunks[k].hasAssignmentData
      /\ Truthy(RecordOf(chunks[k], openai).assignor_name)
           \/ Truthy(RecordOf(chunks[k], openai).assignee_name) }

\* C29: a fragment whose extraction-service call throws or times out gets
\* the record of the pattern-based fallback, or is skipped when that record
\* names no party; every fragment within the processing limit is processed
\* whatever happened to the fragments before it; the records gathered are
\* in the order of the fragments and each names at least one party.
C29_FragmentIsolation ==
  Returned("extractAssignments") =>
    LET chunks == input.args[1]
        openai == input.args[2]
        gathered == output[1]
        kept == KeptFragments(chunks, openai)
    IN /\ Len(gathered) = Cardinality(kept)
       /\ \A j \in 1..Len(gathered) :
            /\ gathered[j].chunkIndex \in kept
            /\ gathered[j] = [RecordOf(chunks[gathered[j].chunkIndex], openai)
                                EXCEPT !.chunkIndex = gathered[j].chunkIndex]
            /\ Truthy(gathered[j].assignor_name) \/ Truthy(gathered[j].assignee_name)
            /\ j > 1 => gathered[j - 1].chunkIndex < gathered[j].chunkIndex

\* the service threw on the first fragment and timed out on the second; the
\* fallback's record stands for the first, and the sixth is still gathered
C29_Witness ==
  /\ Returned("extractAssignments")
  /\ input.args[2]
  /\ Len(input.args[1]) = 7
  /\ input.args[1][1].service = "throws"
  /\ input.args[1][2].service = "timeout"
  /\ input.args[1][6].service = "answers" /\ input.args[1][6].hasAssignmentData
  /\ input.args[1][7].hasAssignmentData
  /\ Len(output[1]) >= 2
  /\ output[1][1].chunkIndex = 1
  /\ output[1][1].assignor_name = <<"Z","e","t","a"," ","T","r","u","s","t">>
  /\ output[1][Len(output[1])].chunkIndex = 6
=============================================================================
